---- MODULE Spec2Model ----
(***************************************************************************)
(* Model of the optimization pipeline of ia-optimizer                      *)
(* (lib/optimizer/{index,audit,perf,seo}.ts, lib/crypto.ts, app/api).      *)
(*                                                                         *)
(* One run of runOptimizationPipeline is a state machine: `pc` is the      *)
(* stage the run is about to execute, `report` the OptimizationReport      *)
(* accumulator, `tree` the working tree in the working directory, `calls`  *)
(* the external commands issued so far, `stages` the stages entered so     *)
(* far and `failed` the commands that failed in the stage just executed.   *)
(* Every external command (git, scp, npm, lighthouse, gh) may succeed,     *)
(* fail or time out: the outcome is an input of the stage's action.        *)
(* `contacted` is the set of remote hosts a command was pointed at.        *)
(*                                                                         *)
(* ApiSpec puts the run behind the admin panel (app/admin/connections)     *)
(* and the routes POST /api/optimize and POST /api/connections/:id/test:   *)
(* `store` is the connection store, `panel` the state of the page in the   *)
(* browser, `request` the request being served and `response` the answer.  *)
(* PatchSpec calls the patch functions of perf.ts and seo.ts on their own, *)
(* any number of times on the same tree; `patch` is the history of calls.  *)
(* RunsSpec lets several runs share one server process (`runs`, `reports`, *)
(* `clock`; `dirs` is the set of working directories that exist) and       *)
(* StoreSpec lets concurrent requests call the connection store of         *)
(* lib/store.ts (`disk`, `heap`, `memoryStore`, `callers`, `history`).     *)
(*                                                                         *)
(* Values that may be `undefined` in the source are modelled as sequences  *)
(* of length at most one: <<>> is undefined, <<v>> is the value v.         *)
(***************************************************************************)
EXTENDS Integers, Sequences, FiniteSets, TLC

VARIABLES config, pc, report, tree, calls, stages, failed,
          contacted, store, panel, request, response, patch,
          dirs, runs, reports, clock,
          disk, heap, memoryStore, callers, history

\* the stored connections, the admin panel and the request it exchanges with
\* an API route
apiVars == <<store, panel, request, response>>

\* the pipeline runs in progress in one server process, the files of
\* REPORTS_DIR (`reports`) and Date.now()
runVars == <<runs, reports, clock>>

\* the store file, the store objects in memory, the memoryStore fallback, the
\* calls of the store functions in progress and the calls and returns so far
storeVars == <<disk, heap, memoryStore, callers, history>>

vars == <<config, pc, report, tree, calls, stages, failed,
          contacted, store, panel, request, response, patch,
          dirs, runVars, storeVars>>

Undefined == <<>>

Some(v) == <<v>>

IsDefined(o) == o # <<>>

Get(o) == o[1]

(***************************************************************************)
(* Bounds of the model.                                                    *)
(***************************************************************************)
\* largest number of high vulnerabilities `npm audit` reports
MaxHighVulns == 1

(***************************************************************************)
(* Inputs.                                                                 *)
(***************************************************************************)
Dimensions == {"performance", "accessibility", "bestPractices", "seo"}

\* How an external command ends.
Outcomes == {"ok", "error", "timeout"}

Failures == Outcomes \ {"ok"}

ConnTypes == {"git", "ssh", "sftp", "ftp"}

BranchNames == {"optimize/perf-seo", "main"}

MinsZero ==
  [performance |-> 0, seo |-> 0, accessibility |-> 0, bestPractices |-> 0]

MinsMixed ==
  [performance |-> 90, seo |-> 80, accessibility |-> 1, bestPractices |-> 50]

MinScoreChoices == {MinsZero, MinsMixed}

(***************************************************************************)
(* Hosts and URLs.  A host string is the sequence of the labels of its     *)
(* name (in lower case), with what is written around it: a scheme prefix,  *)
(* capitals, a port or a path.  ("www.Exemple.com:22" has the labels       *)
(* <<"www", "exemple", "com">>, upper TRUE, rest ":port".)                *)
(***************************************************************************)
HostText(scheme, labels, upper, rest) ==
  [scheme |-> scheme, labels |-> labels, upper |-> upper, rest |-> rest]

PlainHost(labels) == HostText("", labels, FALSE, "")

EmptyHost == PlainHost(<<>>)

\* seq ends with suffix, one label more at least: host.endsWith(`.${allowed}`)
EndsWithDot(seq, suffix) ==
  /\ Len(seq) > Len(suffix)
  /\ SubSeq(seq, Len(seq) - Len(suffix) + 1, Len(seq)) = suffix

\* host.toLowerCase().replace(/^https?:\/\//, '').split('/')[0].split(':')[0]
NormalizeHost(host) == host.labels

\* allowedHosts is a set of host names, each the sequence of its labels
isHostAllowed(host, allowedHosts) ==
  \E allowed \in allowedHosts :
    \/ NormalizeHost(host) = allowed
    \/ EndsWithDot(NormalizeHost(host), allowed)

\* A repository URL: its form (https://... or git@...:...), the token it
\* embeds as credentials (if any) and the labels of its host.
RepoUrl(form, token, labels) == [form |-> form, token |-> token, labels |-> labels]

\* the URL as it is written into a command line or a message
UrlText(url) == <<url.form>> \o url.token \o url.labels

\* process.env.ALLOWED_HOSTS, split at the commas
ALLOWED_HOSTS == {<<"github", "com">>, <<"exemple", "com">>}

\* The decrypted data of a connection.  Fields a connection type does not
\* use are undefined.
Connection(type, repoUrl, host, username, password) ==
  [type |-> type, repoUrl |-> repoUrl, host |-> host, username |-> username,
   password |-> password]

GitHubConn ==
  Connection("git", Some(RepoUrl("https", <<"ghp_token">>, <<"github", "com">>)),
             Undefined, Undefined, Undefined)

GitForeignConn ==
  Connection("git", Some(RepoUrl("ssh", <<>>, <<"git", "evil", "example">>)),
             Undefined, Undefined, Undefined)

SshConn ==
  Connection("ssh", Undefined, Some(PlainHost(<<"www", "exemple", "com">>)),
             Some("deploy"), Some("hunter2"))

SftpForeignConn ==
  Connection("sftp", Undefined, Some(PlainHost(<<"evil", "example">>)),
             Some("root"), Some("hunter2"))

FtpConn ==
  Connection("ftp", Undefined, Some(PlainHost(<<"exemple", "com">>)),
             Some("deploy"), Some("hunter2"))

Connections == {GitHubConn, GitForeignConn, SshConn, SftpForeignConn, FtpConn}

SiteUrl == HostText("https://", <<"www", "exemple", "com">>, FALSE, "")

Configs ==
  [connectionId : {"c1"},
   connectionData : Connections,
   siteUrl : {SiteUrl},
   lighthouseMinScores : MinScoreChoices,
   optimizeBranch : BranchNames,
   preferPr : BOOLEAN,
   allowedHosts : {ALLOWED_HOSTS}]

(***************************************************************************)
(* Messages.  A message of the source is a template string; the model      *)
(* keeps its fixed text, the numbers and the text interpolated into it.    *)
(***************************************************************************)
Msg(text, nums, detail) == [text |-> text, nums |-> nums, detail |-> detail]

\* error.message of a rejected execAsync: "Command failed: <cmd>" (with the
\* kill signal when the timeout fired).
ExecError(cmd, outcome) == Msg("Command failed", <<>>, <<cmd, outcome>>)

\* error.message of a rejected fs call.
FsError(op) == Msg("EACCES: permission denied", <<>>, <<op>>)

(***************************************************************************)
(* The working tree: the features of the fetched sources that the stages   *)
(* read or write.                                                          *)
(*   git        the tree is a git repository                               *)
(*   pkg        package.json: none, plain, analyze (has scripts.analyze),  *)
(*              invalid (not JSON)                                         *)
(*   locks      lockfiles present                                          *)
(*   nextConfig none, anchor (has `module.exports = {`), noanchor,         *)
(*              optimized (contains swcMinify or compress), doubled (the   *)
(*              optimization block twice)                                  *)
(*   files      the .tsx/.jsx files                                        *)
(*   css        none, plain, fontface (@font-face without font-display),   *)
(*              swap (with font-display), doubled (font-display twice)     *)
(*   layout     app/layout.tsx: none, plain, nodefault (no `export default *)
(*              function`), metadata (has `export const metadata`),        *)
(*              doubled (the metadata block twice)                         *)
(*   static     the .js/.css files of .next/static after a build           *)
(***************************************************************************)
LockFiles == {"package-lock.json", "pnpm-lock.yaml", "yarn.lock"}

\* image: none, spaced (`<Image ` followed by white space), unspaced
\* (`<Image` not followed by white space, e.g. `<ImageGallery`)
\* alt: every image tag carries alt=
\* metadata: none, literal (`export const metadata = {`), typed
\* (`export const metadata: Metadata = {`)
\* page: the file is a page.tsx
TsxFile(page, image, loading, decoding, alt, metadata, alternates) ==
  [page |-> page, image |-> image, loading |-> loading, decoding |-> decoding,
   alt |-> alt, metadata |-> metadata, alternates |-> alternates]

NoStatic == <<>>

\* A static site copied from a server: no package.json, no Next.js files.
StaticSite ==
  [git |-> FALSE, pkg |-> "none", locks |-> {}, nextConfig |-> "none",
   files |-> <<>>, css |-> "plain", middleware |-> FALSE, tailwind |-> "none",
   layout |-> "none", appDir |-> FALSE, robots |-> TRUE, sitemap |-> FALSE,
   structuredData |-> FALSE, static |-> NoStatic]

\* A clean Next.js project.
CleanNext ==
  [git |-> TRUE, pkg |-> "plain", locks |-> LockFiles,
   nextConfig |-> "anchor",
   files |-> <<TsxFile(TRUE, "spaced", FALSE, FALSE, TRUE, "literal", FALSE),
               TsxFile(FALSE, "unspaced", FALSE, FALSE, TRUE, "none", FALSE)>>,
   css |-> "fontface", middleware |-> FALSE, tailwind |-> "content",
   layout |-> "plain", appDir |-> TRUE, robots |-> FALSE, sitemap |-> FALSE,
   structuredData |-> FALSE, static |-> NoStatic]

\* A Next.js project the patch sets were already applied to.
PatchedNext ==
  [git |-> TRUE, pkg |-> "analyze", locks |-> {"yarn.lock", "package-lock.json"},
   nextConfig |-> "optimized",
   files |-> <<TsxFile(TRUE, "spaced", TRUE, TRUE, FALSE, "literal", TRUE)>>,
   css |-> "swap", middleware |-> TRUE, tailwind |-> "nocontent",
   layout |-> "metadata", appDir |-> TRUE, robots |-> TRUE, sitemap |-> TRUE,
   structuredData |-> TRUE, static |-> NoStatic]

\* The empty working directory before the fetch.
EmptyTree ==
  [git |-> FALSE, pkg |-> "none", locks |-> {}, nextConfig |-> "none",
   files |-> <<>>, css |-> "none", middleware |-> FALSE, tailwind |-> "none",
   layout |-> "none", appDir |-> FALSE, robots |-> FALSE, sitemap |-> FALSE,
   structuredData |-> FALSE, static |-> NoStatic]

\* A static site with a package.json and the lock file of npm.
NpmSite == [StaticSite EXCEPT !.pkg = "plain", !.locks = {"package-lock.json"}]

\* What a clone can bring.
GitSources == {CleanNext, PatchedNext}

\* What a recursive copy can bring (the remote directory may or may not hold
\* a repository).
CopySources == {StaticSite, CleanNext, NpmSite}

(***************************************************************************)
(* Patch sets.  A sub-step takes st = [tree, result] and the set `fail` of *)
(* the sub-steps whose file system calls are rejected in this run, and     *)
(* returns the new [tree, result].  fileExists and findFiles swallow their *)
(* own errors, so a sub-step fails only where it reaches a readFile, a     *)
(* writeFile or a mkdir.                                                   *)
(***************************************************************************)
EmptyResult == [applied |-> <<>>, skipped |-> <<>>, errors |-> <<>>]

Applied(st, t, m) ==
  [tree |-> t, result |-> [st.result EXCEPT !.applied = Append(@, m)]]

Skipped(st, m) ==
  [tree |-> st.tree, result |-> [st.result EXCEPT !.skipped = Append(@, m)]]

\* As if the catch block of a sub-step recorded nothing.
ErroredUnrecorded(st, m) == [tree |-> st.tree, result |-> st.result]

Errored(st, m) ==
  [tree |-> st.tree, result |-> [st.result EXCEPT !.errors = Append(@, m)]]

\* findFiles(workDir, /\.(tsx|jsx)$/) finds something
HasTsx(t) == t.files # <<>> \/ t.layout # "none" \/ t.structuredData

\* config.includes('swcMinify') || config.includes('compress')
NextConfigOptimized(c) == c \in {"optimized", "doubled"}

\* config.replace(/module\.exports\s*=\s*{/, ...): the block is inserted
\* after the anchor, also where one was inserted before ("doubled")
AddOptimizations(c) ==
  IF c = "anchor" THEN "optimized"
  ELSE IF c = "optimized" THEN "doubled"
  ELSE c

optimizeNextConfig(st, fail) ==
  LET t == st.tree IN
  IF t.nextConfig = "none"
    THEN Skipped(st, Msg("next.config.js - fichier non trouve", <<>>, <<>>))
  ELSE IF "nextConfig" \in fail
    THEN Errored(st, Msg("next.config.js - ", <<>>, <<"EACCES">>))
  ELSE IF ~NextConfigOptimized(t.nextConfig)
    THEN Applied(st, [t EXCEPT !.nextConfig = AddOptimizations(@)],
                 Msg("next.config.js - optimisations ajoutees", <<>>, <<>>))
  ELSE Skipped(st, Msg("next.config.js - deja optimise", <<>>, <<>>))

\* one file of the loop of optimizeImages
ImageLazy(f) ==
  IF f.image # "none" /\ ~f.loading
    THEN [f EXCEPT !.loading = (f.image = "spaced")]
    ELSE f

ImageAsync(f) ==
  IF f.image # "none" /\ ~f.decoding
    THEN [f EXCEPT !.decoding = (f.image = "spaced")]
    ELSE f

ImageModified(f) == f.image # "none" /\ (~f.loading \/ ~ImageLazy(f).decoding)

optimizeImages(st, fail) ==
  LET t == st.tree
      optimizedCount == Cardinality({i \in DOMAIN t.files : ImageModified(t.files[i])})
      files == [i \in DOMAIN t.files |-> ImageAsync(ImageLazy(t.files[i]))]
  IN
  IF HasTsx(t) /\ "images" \in fail
    THEN Errored(st, Msg("Images - ", <<>>, <<"EACCES">>))
  ELSE IF optimizedCount > 0
    THEN Applied(st, [t EXCEPT !.files = files],
                 Msg("Images - fichiers optimises", <<optimizedCount>>, <<>>))
  ELSE Skipped(st, Msg("Images - aucun fichier a optimiser", <<>>, <<>>))

\* content.includes('@font-face') && !content.includes('font-display')
FontFaceWithoutDisplay(css) == css = "fontface"

\* content.replace(/@font-face\s*{/g, ...): every @font-face block gets a
\* font-display line, also one that has it already ("doubled")
AddFontDisplay(css) ==
  IF css = "fontface" THEN "swap"
  ELSE IF css = "swap" THEN "doubled"
  ELSE css

optimizeFonts(st, fail) ==
  LET t == st.tree IN
  IF t.css # "none" /\ "fonts" \in fail
    THEN Errored(st, Msg("Fonts - ", <<>>, <<"EACCES">>))
  ELSE IF FontFaceWithoutDisplay(t.css)
    THEN Applied(st, [t EXCEPT !.css = AddFontDisplay(@)],
                 Msg("Fonts - fichiers optimises (font-display: swap)", <<1>>, <<>>))
  ELSE Skipped(st, Msg("Fonts - aucun @font-face trouve", <<>>, <<>>))

optimizeCacheHeaders(st, fail) ==
  LET t == st.tree IN
  IF t.middleware
    THEN Skipped(st, Msg("Cache headers - middleware existe deja", <<>>, <<>>))
  ELSE IF "cacheHeaders" \in fail
    THEN Errored(st, Msg("Cache headers - ", <<>>, <<"EACCES">>))
  ELSE Applied(st, [t EXCEPT !.middleware = TRUE],
               Msg("Cache headers - middleware cree", <<>>, <<>>))

optimizeBundle(st, fail) ==
  LET t == st.tree IN
  IF t.pkg = "none"
    THEN Skipped(st, Msg("Bundle - package.json non trouve", <<>>, <<>>))
  ELSE IF "bundle" \in fail
    THEN Errored(st, Msg("Bundle - ", <<>>, <<"EACCES">>))
  ELSE IF t.pkg = "invalid"
    THEN Errored(st, Msg("Bundle - ", <<>>, <<"Unexpected token">>))
  ELSE IF t.pkg = "plain"
    THEN Applied(st, [t EXCEPT !.pkg = "analyze"],
                 Msg("Bundle - script analyze ajoute", <<>>, <<>>))
  ELSE Skipped(st, Msg("Bundle - script analyze existe deja", <<>>, <<>>))

optimizeCodeSplitting(st, fail) ==
  IF HasTsx(st.tree) /\ "codeSplitting" \in fail
    THEN Errored(st, Msg("Code splitting - ", <<>>, <<"EACCES">>))
    ELSE Skipped(st, Msg("Code splitting - analyse manuelle requise", <<>>, <<>>))

purgeCss(st, fail) ==
  LET t == st.tree IN
  IF t.tailwind = "none"
    THEN Skipped(st, Msg("CSS Purge - Tailwind non detecte", <<>>, <<>>))
  ELSE IF "purgeCss" \in fail
    THEN Errored(st, Msg("CSS Purge - ", <<>>, <<"EACCES">>))
  ELSE IF t.tailwind = "nocontent"
    THEN Errored(st, Msg("Tailwind - configuration content manquante", <<>>, <<>>))
  ELSE Skipped(st, Msg("Tailwind - purge deja configure", <<>>, <<>>))

\* As if optimizeMetaTags did not look for a metadata block.
MetadataNeverFound(layout) == FALSE

\* layout.includes('export const metadata')
HasMetadata(layout) == layout \in {"metadata", "doubled"}

\* layout.replace(/export default function/, ...): the block is inserted
\* before the component, also where the layout has one already ("doubled")
AddMetadata(layout) ==
  IF layout = "plain" THEN "metadata"
  ELSE IF layout = "metadata" THEN "doubled"
  ELSE layout

optimizeMetaTags(st, fail) ==
  LET t == st.tree IN
  IF t.layout = "none"
    THEN Skipped(st, Msg("Meta tags - layout.tsx non trouve", <<>>, <<>>))
  ELSE IF "metaTags" \in fail
    THEN Errored(st, Msg("Meta tags - ", <<>>, <<"EACCES">>))
  ELSE IF HasMetadata(t.layout)
    THEN Skipped(st, Msg("Meta tags - metadata deja defini", <<>>, <<>>))
  ELSE Applied(st, [t EXCEPT !.layout = AddMetadata(@)],
               Msg("Meta tags - metadata ajoute au layout", <<>>, <<>>))

optimizeRobotsTxt(st, fail) ==
  IF "robots" \in fail
    THEN Errored(st, Msg("robots.txt - ", <<>>, <<"EACCES">>))
    ELSE Applied(st, [st.tree EXCEPT !.robots = TRUE],
                 Msg("robots.txt - cree/mis a jour", <<>>, <<>>))

optimizeSitemap(st, fail) ==
  LET t == st.tree IN
  IF t.sitemap
    THEN Skipped(st, Msg("sitemap.xml - sitemap.ts existe deja", <<>>, <<>>))
  ELSE IF ~t.appDir
    THEN Errored(st, Msg("sitemap.xml - ", <<>>, <<"ENOENT">>))
  ELSE IF "sitemap" \in fail
    THEN Errored(st, Msg("sitemap.xml - ", <<>>, <<"EACCES">>))
  ELSE Applied(st, [t EXCEPT !.sitemap = TRUE],
               Msg("sitemap.xml - sitemap.ts genere", <<>>, <<>>))

addStructuredData(st, fail) ==
  LET t == st.tree IN
  IF "structuredData" \in fail
    THEN Errored(st, Msg("Schema.org - ", <<>>, <<"EACCES">>))
  ELSE IF t.structuredData
    THEN Skipped(st, Msg("Schema.org - composant existe deja", <<>>, <<>>))
  ELSE Applied(st, [t EXCEPT !.structuredData = TRUE],
               Msg("Schema.org - composant StructuredData cree", <<>>, <<>>))

\* one file of the loop of addCanonicalUrls
CanonicalModified(f) == f.page /\ f.metadata # "none" /\ ~f.alternates

Canonical(f) ==
  IF CanonicalModified(f)
    THEN [f EXCEPT !.alternates = (f.metadata = "literal")]
    ELSE f

addCanonicalUrls(st, fail) ==
  LET t == st.tree
      modifiedCount == Cardinality({i \in DOMAIN t.files : CanonicalModified(t.files[i])})
      files == [i \in DOMAIN t.files |-> Canonical(t.files[i])]
  IN
  IF (\E i \in DOMAIN t.files : t.files[i].page) /\ "canonical" \in fail
    THEN Errored(st, Msg("Canonical URLs - ", <<>>, <<"EACCES">>))
  ELSE IF modifiedCount > 0
    THEN Applied(st, [t EXCEPT !.files = files],
                 Msg("Canonical URLs - pages mises a jour", <<modifiedCount>>, <<>>))
  ELSE Skipped(st, Msg("Canonical URLs - aucune page a modifier", <<>>, <<>>))

checkImageAltTexts(st, fail) ==
  LET t == st.tree
      missingAlt == {i \in DOMAIN t.files : t.files[i].image = "spaced" /\ ~t.files[i].alt}
  IN
  IF HasTsx(t) /\ "altTexts" \in fail
    THEN Errored(st, Msg("Alt texts - ", <<>>, <<"EACCES">>))
  ELSE IF missingAlt # {}
    THEN Errored(st, Msg("Alt texts manquants dans", <<Cardinality(missingAlt)>>, <<>>))
  ELSE Applied(st, st.tree,
               Msg("Alt texts - toutes les images ont des descriptions", <<>>, <<>>))

\* The sub-steps of the two sets, in the order of their calls.
PerfOrder ==
  <<"nextConfig", "images", "fonts", "cacheHeaders", "bundle", "codeSplitting",
    "purgeCss">>

SeoOrder ==
  <<"metaTags", "robots", "sitemap", "structuredData", "canonical", "altTexts">>

\* the sub-step of a name
SubStep(name, st, fail) ==
  CASE name = "nextConfig" -> optimizeNextConfig(st, fail)
    [] name = "images" -> optimizeImages(st, fail)
    [] name = "fonts" -> optimizeFonts(st, fail)
    [] name = "cacheHeaders" -> optimizeCacheHeaders(st, fail)
    [] name = "bundle" -> optimizeBundle(st, fail)
    [] name = "codeSplitting" -> optimizeCodeSplitting(st, fail)
    [] name = "purgeCss" -> purgeCss(st, fail)
    [] name = "metaTags" -> optimizeMetaTags(st, fail)
    [] name = "robots" -> optimizeRobotsTxt(st, fail)
    [] name = "sitemap" -> optimizeSitemap(st, fail)
    [] name = "structuredData" -> addStructuredData(st, fail)
    [] name = "canonical" -> addCanonicalUrls(st, fail)
    [] name = "altTexts" -> checkImageAltTexts(st, fail)

\* As if the error of a sub-step kept the sub-steps after it from running.
RunSubStepUnlessError(name, st, fail) ==
  IF st.result.errors # <<>> THEN st
  ELSE LET r == SubStep(name, st, fail) IN
       [tree |-> r.tree, result |-> r.result, ran |-> Append(st.ran, name)]

\* `await subStep(workDir, result)`: the sub-step returns (it catches its own
\* errors) and `ran` lists the sub-steps called so far
RunSubStep(name, st, fail) ==
  LET r == SubStep(name, st, fail) IN
  [tree |-> r.tree, result |-> r.result, ran |-> Append(st.ran, name)]

\* the awaits of a set, one after the other: each sub-step has returned before
\* the next one starts (the state it leaves is a value, bound by the quantifier)
RECURSIVE RunSteps(_, _, _)
RunSteps(order, st, fail) ==
  IF order = <<>> THEN st
  ELSE CHOOSE end \in { RunSteps(Tail(order), next, fail) :
                          next \in {RunSubStep(Head(order), st, fail)} } : TRUE

applyPerfOptimizations(t, fail) ==
  RunSteps(PerfOrder, [tree |-> t, result |-> EmptyResult, ran |-> <<>>], fail)

applySeoOptimizations(t, fail) ==
  RunSteps(SeoOrder, [tree |-> t, result |-> EmptyResult, ran |-> <<>>], fail)

PerfSteps ==
  {"nextConfig", "images", "fonts", "cacheHeaders", "bundle", "codeSplitting", "purgeCss"}

SeoSteps ==
  {"metaTags", "robots", "sitemap", "structuredData", "canonical", "altTexts"}

\* The rejections of file system calls a run is checked under: none, or one
\* sub-step of either set.
PerfIoFailures == {{}, {"images"}}

SeoIoFailures == {{}, {"robots"}}

(***************************************************************************)
(* Audit module.                                                           *)
(***************************************************************************)
\* The categories of a Lighthouse result file, with their score in
\* hundredths; a category may be missing from the file.
LhA == [performance |-> 90, accessibility |-> 100, bestPractices |-> 50, seo |-> 70]

LhB == [performance |-> 40, bestPractices |-> 50, seo |-> 100]

\* A run of the audit tool: how the command ended, the categories of the
\* file it wrote and whether that file can be read and parsed.
LhRuns ==
  [tool : {"ok"}, categories : {LhA, LhB}, readable : {TRUE}]
  \cup [tool : {"ok"}, categories : {LhA}, readable : {FALSE}]
  \cup [tool : Failures, categories : {LhA}, readable : {TRUE}]

\* The run ends in the catch block of runLighthouse.
LhFailed(run) == run.tool # "ok" \/ ~run.readable

\* Math.round((categories.x?.score || 0) * 100)
CategoryScore(categories, d) ==
  IF d \in DOMAIN categories THEN categories[d] ELSE 0

ZeroScores ==
  [performance |-> 0, accessibility |-> 0, bestPractices |-> 0, seo |-> 0]

\* As if a failed audit reported the scores of a stale result file.
runLighthouseStale(url, preset, run) ==
  [url |-> url, device |-> preset,
   scores |-> [d \in Dimensions |-> CategoryScore(run.categories, d)]]

runLighthouse(url, preset, run) ==
  IF ~LhFailed(run)
    THEN [url |-> url, device |-> preset,
          scores |-> [d \in Dimensions |-> CategoryScore(run.categories, d)]]
    ELSE [url |-> url, device |-> preset, scores |-> ZeroScores]

compareAudits(before, after) ==
  [performance |-> after.scores.performance - before.scores.performance,
   accessibility |-> after.scores.accessibility - before.scores.accessibility,
   bestPractices |-> after.scores.bestPractices - before.scores.bestPractices,
   seo |-> after.scores.seo - before.scores.seo]

\* files.reduce((sum, f) => sum + f.size, 0)
RECURSIVE SumSizes(_)
SumSizes(files) ==
  IF files = <<>> THEN 0 ELSE Head(files).size + SumSizes(Tail(files))

\* [...files].sort((a, b) => b.size - a.size): stable, descending by size
RECURSIVE InsertBySize(_, _)
InsertBySize(f, sorted) ==
  IF sorted = <<>> THEN <<f>>
  ELSE IF Head(sorted).size >= f.size
    THEN <<Head(sorted)>> \o InsertBySize(f, Tail(sorted))
  ELSE <<f>> \o sorted

RECURSIVE SortBySize(_)
SortBySize(files) ==
  IF files = <<>> THEN <<>>
  ELSE InsertBySize(files[Len(files)], SortBySize(SubSeq(files, 1, Len(files) - 1)))

\* .slice(0, 10)
TopFiles == 10

Slice(files, n) == SubSeq(files, 1, IF Len(files) < n THEN Len(files) ELSE n)

\* percentage: the exact ratio size * 100 / totalSize, kept as a pair
Percentage(size, totalSize) ==
  IF totalSize > 0 THEN <<size * 100, totalSize>> ELSE <<0, 1>>

EmptyAnalysis == [totalSize |-> 0, files |-> <<>>, largestFiles |-> <<>>]

\* writeOk: writeBundleReport succeeded
analyzeBundles(t, writeOk) ==
  LET files == t.static
      totalSize == SumSizes(files)
  IN
  IF writeOk
    THEN [totalSize |-> totalSize,
          files |-> [i \in DOMAIN files |->
                       [path |-> files[i].path, size |-> files[i].size,
                        percentage |-> Percentage(files[i].size, totalSize)]],
          largestFiles |-> Slice(SortBySize(files), TopFiles)]
    ELSE EmptyAnalysis

\* What `npm run build` can leave in .next/static.
BuildOutputs ==
  {<<[path |-> "chunks/main.js", size |-> 1], [path |-> "css/app.css", size |-> 3],
     [path |-> "chunks/app.js", size |-> 3]>>}

(***************************************************************************)
(* Orchestrator.                                                           *)
(***************************************************************************)
\* The stages of a run.  The after audit (stage 11 of the source) is two
\* steps: desktop ("after"), then mobile.
Stages ==
  {"prepare", "fetch", "before", "branch", "install", "perf", "seo", "quality",
   "build", "bundles", "after", "mobile", "diffs", "validate", "commit", "pr"}

\* As if the working directory were allocated before the try block.
TryBlockAfterPrepare == Stages \ {"prepare"}

\* The stages inside the try block of runOptimizationPipeline.
TryBlock == Stages

NoWorkDir == <<>>

NoDiffs == <<>>

\* As if the report carried the default branch name of the request schema.
NewReportDefaultBranch(cfg) ==
  [success |-> FALSE,
   workDir |-> NoWorkDir,
   branch |-> "chore/optimize-auto",
   prUrl |-> Undefined,
   lighthouse |-> [before |-> Undefined, after |-> Undefined, mobile |-> Undefined],
   bundles |-> Undefined,
   perf |-> [applied |-> <<>>, skipped |-> <<>>, errors |-> <<>>],
   seo |-> [applied |-> <<>>, skipped |-> <<>>, errors |-> <<>>],
   diffs |-> NoDiffs,
   errors |-> <<>>,
   warnings |-> <<>>]

NewReport(cfg) ==
  [success |-> FALSE,
   workDir |-> NoWorkDir,
   branch |-> cfg.optimizeBranch,
   prUrl |-> Undefined,
   lighthouse |-> [before |-> Undefined, after |-> Undefined, mobile |-> Undefined],
   bundles |-> Undefined,
   perf |-> EmptyResult,
   seo |-> EmptyResult,
   diffs |-> NoDiffs,
   errors |-> <<>>,
   warnings |-> <<>>]

\* As if the catch block marked the failure without recording its message.
CaughtUnrecorded(rep, message) == [rep EXCEPT !.success = FALSE]

\* The catch block: the message is recorded and the run has failed.
Caught(rep, message) ==
  [rep EXCEPT !.errors = Append(@, message), !.success = FALSE]

\* As if the catch block recorded the error without ending the run.
ThrowContinues(stage, rep, message) ==
  /\ report' = Caught(rep, message)
  /\ pc' = IF stage = "prepare" THEN "fetch"
           ELSE IF stage = "fetch" THEN "before"
           ELSE "bundles"

\* A stage throws `message` with the report as `rep`: inside the try block
\* the catch block runs and the report is returned, outside the exception
\* leaves runOptimizationPipeline.
Throw(stage, rep, message) ==
  IF stage \in TryBlock
    THEN /\ report' = Caught(rep, message)
         /\ pc' = "done"
    ELSE /\ report' = rep
         /\ pc' = "thrown"

Enter(stage) ==
  /\ pc = stage
  /\ stages' = Append(stages, stage)

\* Date.now() when the working directory is named, in seconds
Timestamps == {1730000000}

\* no run in progress, REPORTS_DIR empty
NoRuns == <<>>

NoReports == <<>>

\* the store module just loaded: `let memoryStore = null`, no call in progress
NoObject == 0

NoHeap == <<>>

NoCallers == <<>>

NoHistory == <<>>

NoDisk == [file |-> <<>>, temp |-> <<>>, writable |-> TRUE]

\* the pipeline on its own: no other run, no call of the store functions
Alone ==
  /\ dirs = {}
  /\ runs = NoRuns
  /\ reports = NoReports
  /\ clock = 0
  /\ disk = NoDisk
  /\ heap = NoHeap
  /\ memoryStore = NoObject
  /\ callers = NoCallers
  /\ history = NoHistory

\* path.join(tmpdir(), `workdir-${connectionId}-${Date.now()}`)
WorkDirPath(cfg, now) == <<"workdir", cfg.connectionId, now>>

\* 1. prepareWorkingDirectory
Prepare ==
  /\ Enter("prepare")
  /\ \E now \in Timestamps, mkdir \in {"ok", "error"} :
       IF mkdir = "ok"
         THEN /\ report' = [report EXCEPT !.workDir = WorkDirPath(config, now)]
              /\ dirs' = dirs \cup {WorkDirPath(config, now)}
              /\ pc' = "fetch"
              /\ tree' = EmptyTree
              /\ failed' = {}
         ELSE /\ Throw("prepare", report, FsError("mkdir"))
              /\ failed' = {"mkdir"}
              /\ UNCHANGED <<tree, dirs>>
  /\ UNCHANGED <<config, calls>>
  /\ UNCHANGED <<contacted, apiVars, patch, runVars, storeVars>>

\* The command fetchSources issues for a connection type, if any.
FetchCommand(type) ==
  IF type = "git" THEN <<"git clone">>
  ELSE IF type = "ssh" \/ type = "sftp" THEN <<"scp">>
  ELSE <<>>

\* The host that command connects to: the host of repoUrl for a clone, the
\* SSH host for a copy.
FetchHost(conn) ==
  IF conn.type = "git" THEN {Get(conn.repoUrl).labels}
  ELSE IF conn.type = "ssh" \/ conn.type = "sftp" THEN {NormalizeHost(Get(conn.host))}
  ELSE {}

\* The message fetchSources throws when its command ends with `outcome`: the
\* message of a rejected execAsync quotes the whole command line.
FetchError(conn, outcome) ==
  IF conn.type = "git"
    THEN Msg("Command failed", <<>>,
             <<"git clone", outcome>> \o UrlText(Get(conn.repoUrl)))
  ELSE IF conn.type = "ssh" \/ conn.type = "sftp"
    THEN Msg("Echec du telechargement SSH/SFTP: ", <<>>,
             <<"Error", "scp", outcome, Get(conn.username)>> \o Get(conn.host).labels)
  ELSE Msg("Type de connexion non supporte: ", <<>>, <<conn.type>>)

\* 2. fetchSources
Fetch ==
  /\ Enter("fetch")
  /\ LET conn == config.connectionData
         type == conn.type
         cmd == FetchCommand(type)
     IN
     /\ calls' = calls \o cmd
     /\ contacted' = contacted \cup FetchHost(conn)
     /\ IF cmd = <<>>
          THEN /\ Throw("fetch", report, FetchError(conn, "error"))
               /\ failed' = {"fetch"}
               /\ UNCHANGED tree
          ELSE \E outcome \in Outcomes :
                 IF outcome = "ok"
                   THEN /\ tree' \in (IF type = "git" THEN GitSources ELSE CopySources)
                        /\ pc' = "before"
                        /\ failed' = {}
                        /\ UNCHANGED report
                   ELSE /\ Throw("fetch", report, FetchError(conn, outcome))
                        /\ failed' = {cmd[1]}
                        /\ UNCHANGED tree
  /\ UNCHANGED config
  /\ UNCHANGED <<apiVars, patch, dirs, runVars, storeVars>>

LighthouseCommand(preset) ==
  IF preset = "mobile" THEN "lighthouse mobile" ELSE "lighthouse desktop"

\* One call of runLighthouse by the pipeline: the command, the snapshot it
\* stores and the stage that follows.
Audit(stage, preset, next) ==
  /\ Enter(stage)
  /\ \E run \in LhRuns :
       /\ report' = [report EXCEPT !.lighthouse[stage] =
                       Some(runLighthouse(config.siteUrl, preset, run))]
       /\ failed' = IF run.tool # "ok" THEN {LighthouseCommand(preset)}
                    ELSE IF ~run.readable THEN {"readFile"}
                    ELSE {}
  /\ calls' = Append(calls, LighthouseCommand(preset))
  /\ pc' = next
  /\ UNCHANGED <<config, tree>>
  /\ UNCHANGED <<contacted, apiVars, patch, dirs, runVars, storeVars>>

\* As if the before audit ran after the branch was created.
AuditBeforeLate == Audit("before", "desktop", "install")

\* 3. before audit
AuditBefore == Audit("before", "desktop", "branch")

\* 4. createOptimizationBranch: the checkout fails when the branch exists
\* or the tree is no repository; nothing is recorded.
CreateBranch ==
  /\ Enter("branch")
  /\ calls' = Append(calls, "git checkout -b")
  /\ \E outcome \in {"ok", "error"} :
       /\ outcome = "ok" => tree.git
       /\ failed' = IF outcome = "ok" THEN {} ELSE {"git checkout -b"}
  /\ pc' = "install"
  /\ UNCHANGED <<config, report, tree>>
  /\ UNCHANGED <<contacted, apiVars, patch, dirs, runVars, storeVars>>

\* As if yarn.lock were looked for before pnpm-lock.yaml.
InstallCommandYarnFirst(t) ==
  IF "yarn.lock" \in t.locks THEN "yarn install"
  ELSE IF "pnpm-lock.yaml" \in t.locks THEN "pnpm install"
  ELSE "npm install"

\* The package manager installDependencies picks.
InstallCommand(t) ==
  IF "pnpm-lock.yaml" \in t.locks THEN "pnpm install"
  ELSE IF "yarn.lock" \in t.locks THEN "yarn install"
  ELSE "npm install"

\* 5. installDependencies
Install ==
  /\ Enter("install")
  /\ IF tree.pkg = "none"
       THEN /\ failed' = {}
            /\ UNCHANGED calls
       ELSE /\ calls' = Append(calls, InstallCommand(tree))
            /\ \E outcome \in Outcomes :
                 failed' = IF outcome = "ok" THEN {} ELSE {InstallCommand(tree)}
  /\ pc' = "perf"
  /\ UNCHANGED <<config, report, tree>>
  /\ UNCHANGED <<contacted, apiVars, patch, dirs, runVars, storeVars>>

\* 6. applyPerfOptimizations
Perf ==
  /\ Enter("perf")
  /\ \E fail \in PerfIoFailures :
       LET st == applyPerfOptimizations(tree, fail) IN
       /\ tree' = st.tree
       /\ report' = [report EXCEPT !.perf = st.result]
  /\ failed' = {}
  /\ pc' = "seo"
  /\ UNCHANGED <<config, calls>>
  /\ UNCHANGED <<contacted, apiVars, patch, dirs, runVars, storeVars>>

\* 7. applySeoOptimizations
Seo ==
  /\ Enter("seo")
  /\ \E fail \in SeoIoFailures :
       LET st == applySeoOptimizations(tree, fail) IN
       /\ tree' = st.tree
       /\ report' = [report EXCEPT !.seo = st.result]
  /\ failed' = {}
  /\ pc' = "quality"
  /\ UNCHANGED <<config, calls>>
  /\ UNCHANGED <<contacted, apiVars, patch, dirs, runVars, storeVars>>

\* What `npm audit --json` can end with: a failure, or a count of high
\* vulnerabilities.
ScanRuns ==
  [tool : Failures, high : {0}] \cup [tool : {"ok"}, high : 0..MaxHighVulns]

LintWarning == Msg("ESLint a detecte des erreurs (non bloquant)", <<>>, <<>>)

ScanWarning(high) == Msg("npm audit: vulnerabilites elevees", <<high>>, <<>>)

\* runQualityChecks: the warnings it adds for the outcomes of its commands
QualityWarnings(lint, prettier, scan) ==
  (IF lint # "ok" THEN <<LintWarning>> ELSE <<>>)
  \o (IF scan.tool = "ok" /\ scan.high > 0 THEN <<ScanWarning(scan.high)>> ELSE <<>>)

\* 8. runQualityChecks (what lint --fix and prettier --write rewrite leaves
\* the features of the tree as they are)
Quality ==
  /\ Enter("quality")
  /\ calls' = calls \o <<"npm run lint", "prettier", "npm audit">>
  /\ \E lint \in Outcomes, prettier \in Outcomes, scan \in ScanRuns :
       /\ report' = [report EXCEPT !.warnings = @ \o QualityWarnings(lint, prettier, scan)]
       /\ failed' = (IF lint # "ok" THEN {"npm run lint"} ELSE {})
                    \cup (IF prettier # "ok" THEN {"prettier"} ELSE {})
                    \cup (IF scan.tool # "ok" THEN {"npm audit"} ELSE {})
  /\ pc' = "build"
  /\ UNCHANGED <<config, tree>>
  /\ UNCHANGED <<contacted, apiVars, patch, dirs, runVars, storeVars>>

BuildError(outcome) ==
  Msg("Build echoue: ", <<>>, ExecError("npm run build", outcome).detail)

\* buildProject on a failed build: the message is pushed to errors before
\* it is thrown
BuildFailed(rep, outcome) ==
  [rep EXCEPT !.errors = Append(@, BuildError(outcome))]

\* As if buildProject recorded the failure without throwing it again.
BuildNotFatal ==
  /\ Enter("build")
  /\ calls' = Append(calls, "npm run build")
  /\ \E outcome \in Outcomes :
       IF outcome = "ok"
         THEN /\ \E out \in BuildOutputs : tree' = [tree EXCEPT !.static = out]
              /\ failed' = {}
              /\ UNCHANGED report
         ELSE /\ report' = BuildFailed(report, outcome)
              /\ failed' = {"npm run build"}
              /\ UNCHANGED tree
  /\ pc' = "bundles"
  /\ UNCHANGED config
  /\ UNCHANGED <<contacted, apiVars, patch, dirs, runVars, storeVars>>

\* 9. buildProject
Build ==
  /\ Enter("build")
  /\ calls' = Append(calls, "npm run build")
  /\ \E outcome \in Outcomes :
       IF outcome = "ok"
         THEN /\ \E out \in BuildOutputs : tree' = [tree EXCEPT !.static = out]
              /\ pc' = "bundles"
              /\ failed' = {}
              /\ UNCHANGED report
         ELSE /\ Throw("build", BuildFailed(report, outcome), BuildError(outcome))
              /\ failed' = {"npm run build"}
              /\ UNCHANGED tree
  /\ UNCHANGED config
  /\ UNCHANGED <<contacted, apiVars, patch, dirs, runVars, storeVars>>

\* 10. analyzeBundles
Bundles ==
  /\ Enter("bundles")
  /\ \E writeOk \in BOOLEAN :
       /\ report' = [report EXCEPT !.bundles = Some(analyzeBundles(tree, writeOk))]
       /\ failed' = IF writeOk THEN {} ELSE {"writeBundleReport"}
  /\ pc' = "after"
  /\ UNCHANGED <<config, tree, calls>>
  /\ UNCHANGED <<contacted, apiVars, patch, dirs, runVars, storeVars>>

\* 11. after audits
AuditAfter == Audit("after", "desktop", "mobile")

AuditMobile == Audit("mobile", "mobile", "diffs")

\* As if the differences were before - after.
ComputeDiffsSwapped(rep) ==
  IF IsDefined(rep.lighthouse.before) /\ IsDefined(rep.lighthouse.after)
    THEN LET before == Get(rep.lighthouse.before)
             after == Get(rep.lighthouse.after)
         IN [rep EXCEPT !.diffs = Some(
              [performance |-> before.scores.performance - after.scores.performance,
               accessibility |-> before.scores.accessibility - after.scores.accessibility,
               bestPractices |-> before.scores.bestPractices - after.scores.bestPractices,
               seo |-> before.scores.seo - after.scores.seo])]
    ELSE rep

\* 12. the score differences of the report
ComputeDiffs(rep) ==
  IF IsDefined(rep.lighthouse.before) /\ IsDefined(rep.lighthouse.after)
    THEN LET before == Get(rep.lighthouse.before)
             after == Get(rep.lighthouse.after)
         IN [rep EXCEPT !.diffs = Some(
              [performance |-> after.scores.performance - before.scores.performance,
               accessibility |-> after.scores.accessibility - before.scores.accessibility,
               bestPractices |-> after.scores.bestPractices - before.scores.bestPractices,
               seo |-> after.scores.seo - before.scores.seo])]
    ELSE rep

Diffs ==
  /\ Enter("diffs")
  /\ report' = ComputeDiffs(report)
  /\ pc' = "validate"
  /\ failed' = {}
  /\ UNCHANGED <<config, tree, calls>>
  /\ UNCHANGED <<contacted, apiVars, patch, dirs, runVars, storeVars>>

ThresholdWarning(label, score, min) == Msg(label, <<score, min>>, <<>>)

\* As if a score equal to the minimum were under the threshold.
AtOrBelowThreshold(label, score, min) ==
  IF score <= min THEN <<ThresholdWarning(label, score, min)>> ELSE <<>>

\* the warning of one dimension, if any
BelowThreshold(label, score, min) ==
  IF score < min THEN <<ThresholdWarning(label, score, min)>> ELSE <<>>

\* 13. validateScores
validateScores(cfg, rep) ==
  IF ~IsDefined(rep.lighthouse.after) THEN rep
  ELSE LET scores == Get(rep.lighthouse.after).scores
           mins == cfg.lighthouseMinScores
       IN [rep EXCEPT !.warnings = @
             \o BelowThreshold("Performance", scores.performance, mins.performance)
             \o BelowThreshold("SEO", scores.seo, mins.seo)
             \o BelowThreshold("Accessibilite", scores.accessibility, mins.accessibility)
             \o BelowThreshold("Best Practices", scores.bestPractices, mins.bestPractices)]

Validate ==
  /\ Enter("validate")
  /\ report' = validateScores(config, report)
  /\ pc' = "commit"
  /\ failed' = {}
  /\ UNCHANGED <<config, tree, calls>>
  /\ UNCHANGED <<contacted, apiVars, patch, dirs, runVars, storeVars>>

CommitCommands == <<"git add", "git commit", "git push">>

CommitWarning == Msg("Commit/push a echoue", <<>>, <<>>)

\* 14. commitChanges: the commands run until the first that fails (n is the
\* number of commands run; allOk says whether the last of them succeeded)
Commit ==
  /\ Enter("commit")
  /\ \E n \in DOMAIN CommitCommands, allOk \in BOOLEAN :
       /\ allOk => n = Len(CommitCommands)
       /\ calls' = calls \o SubSeq(CommitCommands, 1, n)
       /\ failed' = IF allOk THEN {} ELSE {CommitCommands[n]}
       /\ report' = IF allOk THEN report
                    ELSE [report EXCEPT !.warnings = Append(@, CommitWarning)]
  /\ pc' = "pr"
  /\ UNCHANGED <<config, tree>>
  /\ UNCHANGED <<contacted, apiVars, patch, dirs, runVars, storeVars>>

PrUrls == {"https://github.com/owner/repo/pull/1"}

PrWarning(cfg) ==
  Msg("Creer manuellement la PR depuis la branche ", <<>>, <<cfg.optimizeBranch>>)

\* createPullRequest: the report and the returned URL
createPullRequest(cfg, rep, outcome, url) ==
  IF outcome = "ok"
    THEN [rep EXCEPT !.prUrl = Some(url)]
    ELSE [rep EXCEPT !.warnings = Append(@, PrWarning(cfg)), !.prUrl = Undefined]

\* As if a run with warnings did not count as a success.
SucceededIfClean(rep) == [rep EXCEPT !.success = (rep.warnings = <<>>)]

\* the end of the try block
Succeeded(rep) == [rep EXCEPT !.success = TRUE]

\* 15. createPullRequest if preferPr, then the run has succeeded
PullRequest ==
  /\ Enter("pr")
  /\ IF config.preferPr
       THEN /\ calls' = Append(calls, "gh pr create")
            /\ \E outcome \in Outcomes, url \in PrUrls :
                 /\ report' = Succeeded(createPullRequest(config, report, outcome, url))
                 /\ failed' = IF outcome = "ok" THEN {} ELSE {"gh pr create"}
       ELSE /\ report' = Succeeded(report)
            /\ failed' = {}
            /\ UNCHANGED calls
  /\ pc' = "done"
  /\ UNCHANGED <<config, tree>>
  /\ UNCHANGED <<contacted, apiVars, patch, dirs, runVars, storeVars>>

(***************************************************************************)
(* The API routes and the admin panel.                                     *)
(*   store     the stored connections of the server: {[id, encrypted]}     *)
(*   panel     the state of the admin page in the browser                  *)
(*   request   the HTTP request in flight, if any                          *)
(*   response  the response to it, if any                                  *)
(*   contacted the hosts the server has opened a connection to in order to *)
(*             fetch or to test a connection                               *)
(***************************************************************************)
\* encryptJson: the blob keeps its version, and the model keeps the key it
\* was sealed with and whether the stored bytes are still intact.
encryptJson(data, password) ==
  [v |-> 1, key |-> password, data |-> data, intact |-> TRUE]

\* decryptJson: the data, or Undefined where the source throws
decryptJson(encrypted, password) ==
  IF encrypted.v # 1 THEN Undefined
  ELSE IF encrypted.intact /\ encrypted.key = password THEN Some(encrypted.data)
  ELSE Undefined

\* getConnection(id): the stored connection, if any
getConnection(st, id) == {c \in st : c.id = id}

MasterPasswords == {"master", "guess"}

CorruptedBlob == [encryptJson(SshConn, "master") EXCEPT !.intact = FALSE]

\* What the store can hold when a request arrives.
Stores ==
  {{[id |-> "c1", encrypted |-> encryptJson(conn, "master")],
    [id |-> "c2", encrypted |-> CorruptedBlob]} : conn \in Connections}

NoRequest == <<>>

NoResponse == <<>>

\* the configuration before a request has built one
NoConfig ==
  [connectionId |-> "", connectionData |-> Connection("", Undefined, Undefined,
                                                     Undefined, Undefined),
   siteUrl |-> EmptyHost, lighthouseMinScores |-> MinsZero, optimizeBranch |-> "",
   preferPr |-> FALSE, allowedHosts |-> {}]

LockedPanel ==
  [masterPassword |-> "", isUnlocked |-> FALSE, storedConnections |-> {},
   connections |-> {}, selectedConnection |-> Undefined]

\* the body of a request to POST /api/optimize; json says whether the body
\* parses as JSON, and a field left out is Undefined
OptimizeBody(json, connectionId, masterPassword, siteUrl, mins, branch, preferPr) ==
  [json |-> json, connectionId |-> connectionId, masterPassword |-> masterPassword,
   siteUrl |-> siteUrl, lighthouseMinScores |-> mins, optimizeBranch |-> branch,
   preferPr |-> preferPr]

\* the body of a request to POST /api/connections/:id/test
TestBody(json, decryptedData) == [json |-> json, decryptedData |-> decryptedData]

Request(from, route, id, body) ==
  [from |-> from, route |-> route, id |-> id, body |-> body]

Response(status, ok, error, rep) ==
  [status |-> status, ok |-> ok, error |-> error, report |-> rep]

\* the thresholds handleOptimize sends
MinsPanel ==
  [performance |-> 90, seo |-> 95, accessibility |-> 90, bestPractices |-> 95]

ForeignSiteUrl == HostText("https://", <<"intranet", "corp">>, FALSE, "/admin")

\* what the operator may type at the prompt of handleOptimize
PromptUrls == {SiteUrl, ForeignSiteUrl}

\* useEffect on mount: loadConnections (GET /api/connections)
LoadConnections ==
  /\ pc = "mount"
  /\ panel' = [panel EXCEPT !.storedConnections = store]
  /\ pc' = "panel"
  /\ UNCHANGED <<config, report, tree, calls, stages, failed, contacted,
                 request, response, store, patch,
                 dirs, runVars, storeVars>>

\* handleUnlock with the password typed into the form
handleUnlock ==
  /\ pc = "panel"
  /\ ~panel.isUnlocked
  /\ \E typed \in MasterPasswords :
       panel' = [panel EXCEPT
                   !.masterPassword = typed,
                   !.connections =
                     {[id |-> s.id, data |-> Get(decryptJson(s.encrypted, typed))] :
                        s \in {x \in panel.storedConnections :
                                 IsDefined(decryptJson(x.encrypted, typed))}},
                   !.isUnlocked = TRUE]
  /\ UNCHANGED <<config, pc, report, tree, calls, stages, failed, contacted,
                 request, response, store, patch,
                 dirs, runVars, storeVars>>

\* a click on a connection of the list: setSelectedConnection(conn)
SelectConnection ==
  /\ pc = "panel"
  /\ panel.isUnlocked
  /\ \E c \in panel.connections :
       /\ panel.selectedConnection # Some(c)
       /\ panel' = [panel EXCEPT !.selectedConnection = Some(c)]
  /\ UNCHANGED <<config, pc, report, tree, calls, stages, failed, contacted,
                 request, response, store, patch,
                 dirs, runVars, storeVars>>

\* handleTest: the decrypted connection is sent to the test route
handleTest ==
  /\ pc = "panel"
  /\ panel.isUnlocked
  /\ \E c \in panel.connections :
       request' = Some(Request("panel", "test", c.id, TestBody(TRUE, Some(c.data))))
  /\ pc' = "test"
  /\ UNCHANGED <<config, report, tree, calls, stages, failed, contacted,
                 panel, response, store, patch,
                 dirs, runVars, storeVars>>

\* handleOptimize: the request of the panel to POST /api/optimize
handleOptimize ==
  /\ pc = "panel"
  /\ panel.isUnlocked
  /\ IsDefined(panel.selectedConnection)
  /\ panel.masterPassword # ""
  /\ \E siteUrl \in PromptUrls :
       request' = Some(Request("panel", "optimize", "",
                    OptimizeBody(TRUE, Some(Get(panel.selectedConnection).id),
                                 Some(panel.masterPassword), Some(siteUrl),
                                 Some(MinsPanel), Some("chore/optimize-auto"),
                                 Some(TRUE))))
  /\ pc' = "optimize"
  /\ UNCHANGED <<config, report, tree, calls, stages, failed, contacted,
                 panel, response, store, patch,
                 dirs, runVars, storeVars>>

\* Requests of other HTTP clients than the panel.
ForeignOptimizeBodies ==
  {OptimizeBody(FALSE, Undefined, Undefined, Undefined, Undefined, Undefined, Undefined),
   OptimizeBody(TRUE, Some("c9"), Undefined, Some(SiteUrl), Some(MinsZero),
                Undefined, Undefined),
   OptimizeBody(TRUE, Some("c9"), Some("guess"), Some(SiteUrl), Some(MinsZero),
                Undefined, Undefined),
   OptimizeBody(TRUE, Some("c1"), Some("guess"), Some(SiteUrl), Some(MinsZero),
                Undefined, Undefined),
   OptimizeBody(TRUE, Some("c2"), Some("master"), Some(SiteUrl), Some(MinsZero),
                Undefined, Undefined),
   OptimizeBody(TRUE, Some("c1"), Some("master"), Some(ForeignSiteUrl), Some(MinsZero),
                Undefined, Some(FALSE))}

\* a body naming an allowed host in `host` and another host in `repoUrl`
TwoHostsData ==
  Connection("git", Some(RepoUrl("https", <<>>, <<"git", "evil", "example">>)),
             Some(PlainHost(<<"github", "com">>)), Undefined, Undefined)

\* an SSH body with the host written with a scheme, capitals and a port
DecoratedHostData ==
  Connection("ssh", Undefined,
             Some(HostText("https://", <<"www", "exemple", "com">>, TRUE, ":port")),
             Some("deploy"), Some("hunter2"))

ForeignTestRequests ==
  {Request("other", "test", "c1", TestBody(FALSE, Undefined)),
   Request("other", "test", "c9", TestBody(TRUE, Some(GitHubConn))),
   Request("other", "test", "c1", TestBody(TRUE, Undefined)),
   Request("other", "test", "c1", TestBody(TRUE, Some(TwoHostsData))),
   Request("other", "test", "c1", TestBody(TRUE, Some(DecoratedHostData))),
   Request("other", "test", "c2", TestBody(TRUE, Some(FtpConn)))}

ForeignRequests ==
  {Request("other", "optimize", "", b) : b \in ForeignOptimizeBodies}
  \cup ForeignTestRequests

\* a request sent to the server by a client other than the panel
ForeignRequest ==
  /\ pc = "panel"
  /\ \E r \in ForeignRequests :
       /\ request' = Some(r)
       /\ pc' = r.route
  /\ UNCHANGED <<config, report, tree, calls, stages, failed, contacted,
                 panel, response, store, patch,
                 dirs, runVars, storeVars>>

\* OptimizeRequestSchema.safeParse(body).success
ValidOptimizeBody(body) ==
  /\ IsDefined(body.connectionId)
  /\ IsDefined(body.masterPassword)
  /\ IsDefined(body.siteUrl)
  /\ Get(body.siteUrl).scheme # ""
  /\ IsDefined(body.lighthouseMinScores)
  /\ \A d \in Dimensions : Get(body.lighthouseMinScores)[d] \in 0..100

\* a value of the schema with its default
WithDefault(o, default) == IF IsDefined(o) THEN Get(o) ELSE default

\* the OptimizationConfig POST /api/optimize builds
BuildConfig(body, connectionData) ==
  [connectionId |-> Get(body.connectionId),
   connectionData |-> connectionData,
   siteUrl |-> Get(body.siteUrl),
   lighthouseMinScores |-> Get(body.lighthouseMinScores),
   optimizeBranch |-> WithDefault(body.optimizeBranch, "chore/optimize-auto"),
   preferPr |-> WithDefault(body.preferPr, TRUE),
   allowedHosts |-> ALLOWED_HOSTS]

\* the route answers without running the pipeline
Reply(status, error) ==
  /\ response' = Some(Response(status, FALSE, error, Undefined))
  /\ pc' = "responded"
  /\ UNCHANGED <<config, report>>

\* POST /api/optimize, up to the call of runOptimizationPipeline
PostOptimize ==
  /\ pc = "optimize"
  /\ LET body == Get(request).body IN
     IF ~body.json
       THEN Reply(500, "Erreur lors de l'optimisation")
     ELSE IF ~ValidOptimizeBody(body)
       THEN Reply(400, "Donnees invalides")
     ELSE IF getConnection(store, Get(body.connectionId)) = {}
       THEN Reply(404, "Connexion non trouvee")
     ELSE LET stored == CHOOSE c \in getConnection(store, Get(body.connectionId)) : TRUE
              connectionData == decryptJson(stored.encrypted, Get(body.masterPassword))
          IN IF ~IsDefined(connectionData)
               THEN Reply(401, "Mot de passe incorrect ou donnees corrompues")
               ELSE /\ config' = BuildConfig(body, Get(connectionData))
                    /\ report' = NewReport(config')
                    /\ pc' = "prepare"
                    /\ UNCHANGED response
  /\ UNCHANGED <<tree, calls, stages, failed, contacted, panel, request, store, patch,
                 dirs, runVars, storeVars>>

\* the report as the response of POST /api/optimize carries it
ResponseReport(rep) ==
  [before |-> rep.lighthouse.before, after |-> rep.lighthouse.after,
   mobile |-> rep.lighthouse.mobile, diffs |-> rep.diffs,
   bundles |-> IF IsDefined(rep.bundles)
                 THEN Some([totalSize |-> Get(rep.bundles).totalSize,
                            largestFiles |-> Slice(Get(rep.bundles).largestFiles, 5)])
                 ELSE Undefined,
   perf |-> rep.perf.applied, seo |-> rep.seo.applied,
   errors |-> rep.errors, warnings |-> rep.warnings,
   branch |-> rep.branch, prUrl |-> rep.prUrl, workDir |-> rep.workDir]

\* As if the route answered 200 whatever the report says.
RespondOk ==
  /\ pc \in {"done", "thrown"}
  /\ IsDefined(request)
  /\ response' = Some(Response(200, report.success, "", Some(ResponseReport(report))))
  /\ pc' = "responded"
  /\ UNCHANGED <<config, report, tree, calls, stages, failed, contacted,
                 panel, request, store, patch,
                 dirs, runVars, storeVars>>

\* POST /api/optimize, after runOptimizationPipeline has returned (or thrown)
Respond ==
  /\ pc \in {"done", "thrown"}
  /\ IsDefined(request)
  /\ response' =
       IF pc = "thrown"
         THEN Some(Response(500, FALSE, "Erreur lors de l'optimisation", Undefined))
         ELSE Some(Response(IF report.success THEN 200 ELSE 500, report.success, "",
                            Some(ResponseReport(report))))
  /\ pc' = "responded"
  /\ UNCHANGED <<config, report, tree, calls, stages, failed, contacted,
                 panel, request, store, patch,
                 dirs, runVars, storeVars>>

\* extractHostFromUrl: '' for no URL or one that does not parse, the host
\* after git@, or the hostname of the URL
extractHostFromUrl(url) ==
  IF ~IsDefined(url) THEN EmptyHost
  ELSE IF Get(url).form \in {"ssh", "https"} THEN PlainHost(Get(url).labels)
  ELSE EmptyHost

\* decryptedData.host || extractHostFromUrl(decryptedData.repoUrl)
TestedHost(data) ==
  IF IsDefined(data.host) /\ Get(data.host) # EmptyHost
    THEN Get(data.host)
    ELSE extractHostFromUrl(data.repoUrl)

\* The host testGitConnection, testSshConnection or testSftpConnection
\* connects to: the one of repoUrl for git ls-remote, data.host for the SSH
\* client (which falls back to localhost without one).
TestTarget(data) ==
  IF data.type = "git"
    THEN IF IsDefined(data.repoUrl) /\ Get(data.repoUrl).form \in {"ssh", "https"}
           THEN {Get(data.repoUrl).labels}
           ELSE {}
  ELSE IF IsDefined(data.host) /\ Get(data.host) # EmptyHost
    THEN IF Get(data.host).scheme = "" /\ Get(data.host).rest = ""
           THEN {Get(data.host).labels}
           ELSE {}
  ELSE {<<"localhost">>}

\* POST /api/connections/:id/test
PostTest ==
  /\ pc = "test"
  /\ LET req == Get(request)
         body == req.body
     IN
     IF ~body.json
       THEN /\ Reply(500, "Erreur lors du test de connexion")
            /\ UNCHANGED contacted
     ELSE IF getConnection(store, req.id) = {}
       THEN /\ Reply(404, "Connexion non trouvee")
            /\ UNCHANGED contacted
     ELSE IF ~IsDefined(body.decryptedData)
       THEN /\ Reply(400, "Donnees dechiffrees manquantes")
            /\ UNCHANGED contacted
     ELSE LET data == Get(body.decryptedData) IN
          IF ~isHostAllowed(TestedHost(data), ALLOWED_HOSTS)
            THEN /\ Reply(403, "Host non autorise")
                 /\ UNCHANGED contacted
          ELSE IF data.type \notin {"git", "ssh", "sftp"}
            THEN /\ Reply(400, "Type de connexion non supporte")
                 /\ UNCHANGED contacted
          ELSE /\ contacted' = contacted \cup TestTarget(data)
               /\ \E outcome \in Outcomes :
                    response' = Some(Response(200, outcome = "ok",
                                              IF outcome = "ok" THEN "" ELSE outcome,
                                              Undefined))
               /\ pc' = "responded"
               /\ UNCHANGED <<config, report>>
  /\ UNCHANGED <<tree, calls, stages, failed, panel, request, store, patch,
                 dirs, runVars, storeVars>>

(***************************************************************************)
(* The patch sets called on their own.  `patch` is the history of the      *)
(* calls made on the tree: which function was called, with which rejected  *)
(* file system calls, the tree before and after, the result and the        *)
(* sub-steps that ran.                                                     *)
(***************************************************************************)
\* largest number of calls made on one tree
MaxCalls == 3

NoPatch == <<>>

\* A Next.js project whose files lack the places the patches look for.
OddNext ==
  [git |-> TRUE, pkg |-> "invalid", locks |-> {},
   nextConfig |-> "noanchor",
   files |-> <<TsxFile(TRUE, "spaced", FALSE, TRUE, FALSE, "typed", FALSE)>>,
   css |-> "plain", middleware |-> FALSE, tailwind |-> "nocontent",
   layout |-> "nodefault", appDir |-> FALSE, robots |-> FALSE, sitemap |-> FALSE,
   structuredData |-> FALSE, static |-> NoStatic]

PatchTrees == {EmptyTree, StaticSite, CleanNext, PatchedNext, OddNext}

Call(fn, fail, before, st) ==
  [fn |-> fn, fail |-> fail, before |-> before, after |-> st.tree,
   result |-> st.result, ran |-> st.ran]

\* applyPerfOptimizations(workDir)
CallPerf ==
  /\ pc = "patch"
  /\ Len(patch) < MaxCalls
  /\ \E fail \in PerfIoFailures :
       LET st == applyPerfOptimizations(tree, fail) IN
       /\ tree' = st.tree
       /\ patch' = Append(patch, Call("perf", fail, tree, st))
  /\ UNCHANGED <<config, pc, report, calls, stages, failed, contacted, apiVars,
               dirs, runVars, storeVars>>

\* applySeoOptimizations(workDir, siteUrl)
CallSeo ==
  /\ pc = "patch"
  /\ Len(patch) < MaxCalls
  /\ \E fail \in SeoIoFailures :
       LET st == applySeoOptimizations(tree, fail) IN
       /\ tree' = st.tree
       /\ patch' = Append(patch, Call("seo", fail, tree, st))
  /\ UNCHANGED <<config, pc, report, calls, stages, failed, contacted, apiVars,
               dirs, runVars, storeVars>>

\* one sub-step called with a fresh result
CallSubStep ==
  /\ pc = "patch"
  /\ Len(patch) < MaxCalls
  /\ \E name \in PerfSteps \cup SeoSteps :
       LET st == RunSubStep(name, [tree |-> tree, result |-> EmptyResult,
                                   ran |-> <<>>], {})
       IN
       /\ tree' = st.tree
       /\ patch' = Append(patch, Call(name, {}, tree, st))
  /\ UNCHANGED <<config, pc, report, calls, stages, failed, contacted, apiVars,
               dirs, runVars, storeVars>>

Init ==
  /\ config \in Configs
  /\ pc = "prepare"
  /\ report = NewReport(config)
  /\ tree = EmptyTree
  /\ calls = <<>>
  /\ stages = <<>>
  /\ failed = {}
  /\ contacted = {}
  /\ store = {}
  /\ panel = LockedPanel
  /\ request = NoRequest
  /\ response = NoResponse
  /\ patch = NoPatch
  /\ Alone

Next ==
  \/ Prepare
  \/ Fetch
  \/ AuditBefore
  \/ CreateBranch
  \/ Install
  \/ Perf
  \/ Seo
  \/ Quality
  \/ Build
  \/ Bundles
  \/ AuditAfter
  \/ AuditMobile
  \/ Diffs
  \/ Validate
  \/ Commit
  \/ PullRequest

\* One call of runOptimizationPipeline.
Spec == Init /\ [][Next]_vars

\* The admin page is opened in a browser; the server holds a store.
ApiInit ==
  /\ config = NoConfig
  /\ pc = "mount"
  /\ report = NewReport(NoConfig)
  /\ tree = EmptyTree
  /\ calls = <<>>
  /\ stages = <<>>
  /\ failed = {}
  /\ contacted = {}
  /\ store \in Stores
  /\ panel = LockedPanel
  /\ request = NoRequest
  /\ response = NoResponse
  /\ patch = NoPatch
  /\ Alone

ApiNext ==
  \/ LoadConnections
  \/ handleUnlock
  \/ SelectConnection
  \/ handleTest
  \/ handleOptimize
  \/ ForeignRequest
  \/ PostTest
  \/ PostOptimize
  \/ Prepare
  \/ Fetch
  \/ AuditBefore
  \/ CreateBranch
  \/ Install
  \/ Perf
  \/ Seo
  \/ Quality
  \/ Build
  \/ Bundles
  \/ AuditAfter
  \/ AuditMobile
  \/ Diffs
  \/ Validate
  \/ Commit
  \/ PullRequest
  \/ Respond

\* One request to POST /api/optimize or POST /api/connections/:id/test, sent
\* by the admin panel or by another client.
ApiSpec == ApiInit /\ [][ApiNext]_vars

\* A fetched tree the patch functions are called on.
PatchInit ==
  /\ config = NoConfig
  /\ pc = "patch"
  /\ report = NewReport(NoConfig)
  /\ tree \in PatchTrees
  /\ calls = <<>>
  /\ stages = <<>>
  /\ failed = {}
  /\ contacted = {}
  /\ store = {}
  /\ panel = LockedPanel
  /\ request = NoRequest
  /\ response = NoResponse
  /\ patch = NoPatch
  /\ Alone

PatchNext ==
  \/ CallPerf
  \/ CallSeo
  \/ CallSubStep

\* Calls of applyPerfOptimizations, applySeoOptimizations and their sub-steps
\* on one tree.
PatchSpec == PatchInit /\ [][PatchNext]_vars

(***************************************************************************)
(* Several runs of runOptimizationPipeline in one server process.  Each    *)
(* request starts a run; the runs interleave at their awaits.  A run is    *)
(* reduced to the steps that name or touch files: the working directory    *)
(* (prepareWorkingDirectory, fetchSources, stages 4 to 9), the result      *)
(* files of runLighthouse and the summary of analyzeBundles in             *)
(* REPORTS_DIR.                                                            *)
(*   runs      the runs started, each with its position and its snapshots  *)
(*   reports   REPORTS_DIR: path -> [categories, writers, readers]         *)
(*   clock     Date.now(), in ticks since the first request                *)
(***************************************************************************)
\* the requests served at once
MaxRuns == 2

\* how far Date.now() advances while the runs are in progress
MaxClock == 1

ConnectionIds == {"c1", "c2"}

\* the steps of a run, in the order of runOptimizationPipeline
RunOrder ==
  <<"prepare", "fetch", "before", "read before", "work", "bundles",
    "after", "read after", "mobile", "read mobile", "done">>

RunNextPc(at) == RunOrder[(CHOOSE i \in DOMAIN RunOrder : RunOrder[i] = at) + 1]

\* what Lighthouse finds on the site audited for a connection
Measured(id) == IF id = "c1" THEN LhA ELSE LhB

AuditStages == {"before", "after", "mobile"}

\* a run just started for a connection: `measured` is what Lighthouse finds
\* on the site of the request
NewRun(id, measured) ==
  [connectionId |-> id, measured |-> measured, pc |-> "prepare",
   workDir |-> NoWorkDir, outputPath |-> <<>>,
   lighthouse |-> [before |-> Undefined, after |-> Undefined, mobile |-> Undefined],
   success |-> FALSE]

\* path.join(REPORTS_DIR, `lh-${preset}-${timestamp}.json`)
LighthousePath(preset, now) == <<"lh", preset, now>>

\* path.join(REPORTS_DIR, `bundles-${Date.now()}.md`)
BundleReportPath(now) == <<"bundles", now>>

AuditPreset(stage) == IF stage = "mobile" THEN "mobile" ELSE "desktop"

\* the file at `path` after run r wrote `content` to it
WriteReport(fs, path, r, content) ==
  LET old == IF path \in DOMAIN fs THEN fs[path]
             ELSE [content |-> content, writers |-> {}, readers |-> {}]
  IN (path :> [content |-> content, writers |-> old.writers \cup {r},
               readers |-> old.readers]) @@ fs

\* the file at `path` after run r read it
ReadReport(fs, path, r) ==
  (path :> [fs[path] EXCEPT !.readers = @ \cup {r}]) @@ fs

\* POST /api/optimize calls runOptimizationPipeline
StartRun ==
  /\ pc = "runs"
  /\ Len(runs) < MaxRuns
  /\ \E id \in ConnectionIds : runs' = Append(runs, NewRun(id, Measured(id)))
  /\ UNCHANGED <<reports, clock, dirs>>
  /\ UNCHANGED <<config, pc, report, tree, calls, stages, failed, contacted,
                 apiVars, patch, storeVars>>

\* a millisecond passes
Tick ==
  /\ pc = "runs"
  /\ clock < MaxClock
  /\ clock' = clock + 1
  /\ UNCHANGED <<runs, reports, dirs>>
  /\ UNCHANGED <<config, pc, report, tree, calls, stages, failed, contacted,
                 apiVars, patch, storeVars>>

\* the catch block of a run: the run returns with success = false
RunCaught(run) == [run EXCEPT !.pc = "done", !.success = FALSE]

\* the run goes on to its next step; after the last one `report.success = true`
Advance(run, to) == [run EXCEPT !.pc = to, !.success = (to = "done")]

\* 1. prepareWorkingDirectory of run r
RunPrepare(r) ==
  /\ runs[r].pc = "prepare"
  /\ LET path == WorkDirPath(runs[r], clock) IN
     \E mkdir \in {"ok", "error"} :
       IF mkdir = "ok"
         THEN /\ runs' = [runs EXCEPT ![r] = Advance([@ EXCEPT !.workDir = path], "fetch")]
              /\ dirs' = dirs \cup {path}
         ELSE /\ runs' = [runs EXCEPT ![r] = RunCaught(@)]
              /\ UNCHANGED dirs
  /\ UNCHANGED <<reports, clock>>
  /\ UNCHANGED <<config, pc, report, tree, calls, stages, failed, contacted,
                 apiVars, patch, storeVars>>

\* 2. fetchSources of run r into its working directory
RunFetch(r) ==
  /\ runs[r].pc = "fetch"
  /\ \E outcome \in {"ok", "error"} :
       runs' = [runs EXCEPT ![r] = IF outcome = "ok" THEN Advance(@, "before")
                                   ELSE RunCaught(@)]
  /\ UNCHANGED <<reports, clock, dirs>>
  /\ UNCHANGED <<config, pc, report, tree, calls, stages, failed, contacted,
                 apiVars, patch, storeVars>>

\* runLighthouse up to `await execAsync(command)`: the output path is named
\* from Date.now() and the tool writes its result there; when the tool fails
\* the catch block returns zero scores
RunAuditExec(r, stage) ==
  /\ runs[r].pc = stage
  /\ LET path == LighthousePath(AuditPreset(stage), clock) IN
     \E tool \in {"ok", "error"} :
       IF tool = "ok"
         THEN /\ reports' = WriteReport(reports, path, r, runs[r].measured)
              /\ runs' = [runs EXCEPT ![r] =
                   Advance([@ EXCEPT !.outputPath = path], RunNextPc(stage))]
         ELSE /\ runs' = [runs EXCEPT ![r] =
                   Advance([@ EXCEPT !.lighthouse[stage] =
                              Some(runLighthouse(SiteUrl, AuditPreset(stage),
                                     [tool |-> tool, categories |-> runs[r].measured,
                                      readable |-> TRUE]))],
                           RunNextPc(RunNextPc(stage)))]
              /\ UNCHANGED reports
  /\ UNCHANGED <<clock, dirs>>
  /\ UNCHANGED <<config, pc, report, tree, calls, stages, failed, contacted,
                 apiVars, patch, storeVars>>

\* runLighthouse from `await fs.readFile(outputPath)` on
RunAuditRead(r, stage) ==
  /\ runs[r].pc = RunNextPc(stage)
  /\ LET path == runs[r].outputPath IN
     /\ reports' = ReadReport(reports, path, r)
     /\ runs' = [runs EXCEPT ![r] =
          Advance([@ EXCEPT !.lighthouse[stage] =
                     Some(runLighthouse(SiteUrl, AuditPreset(stage),
                            [tool |-> "ok", categories |-> reports[path].content,
                             readable |-> TRUE]))],
                  RunNextPc(RunNextPc(stage)))]
  /\ UNCHANGED <<clock, dirs>>
  /\ UNCHANGED <<config, pc, report, tree, calls, stages, failed, contacted,
                 apiVars, patch, storeVars>>

\* stages 4 to 9, which work inside the working directory; a failed build
\* ends the run
RunWork(r) ==
  /\ runs[r].pc = "work"
  /\ \E build \in {"ok", "error"} :
       runs' = [runs EXCEPT ![r] = IF build = "ok" THEN Advance(@, "bundles")
                                   ELSE RunCaught(@)]
  /\ UNCHANGED <<reports, clock, dirs>>
  /\ UNCHANGED <<config, pc, report, tree, calls, stages, failed, contacted,
                 apiVars, patch, storeVars>>

\* 10. analyzeBundles: the summary document is written to REPORTS_DIR
RunBundles(r) ==
  /\ runs[r].pc = "bundles"
  /\ \E writeOk \in BOOLEAN :
       reports' = IF writeOk
                    THEN WriteReport(reports, BundleReportPath(clock), r, <<>>)
                    ELSE reports
  /\ runs' = [runs EXCEPT ![r] = Advance(@, "after")]
  /\ UNCHANGED <<clock, dirs>>
  /\ UNCHANGED <<config, pc, report, tree, calls, stages, failed, contacted,
                 apiVars, patch, storeVars>>

RunsInit ==
  /\ config = NoConfig
  /\ pc = "runs"
  /\ report = NewReport(NoConfig)
  /\ tree = EmptyTree
  /\ calls = <<>>
  /\ stages = <<>>
  /\ failed = {}
  /\ contacted = {}
  /\ store = {}
  /\ panel = LockedPanel
  /\ request = NoRequest
  /\ response = NoResponse
  /\ patch = NoPatch
  /\ Alone

RunsNext ==
  \/ StartRun
  \/ Tick
  \/ \E r \in DOMAIN runs : RunPrepare(r)
  \/ \E r \in DOMAIN runs : RunFetch(r)
  \/ \E r \in DOMAIN runs, stage \in AuditStages : RunAuditExec(r, stage)
  \/ \E r \in DOMAIN runs, stage \in AuditStages : RunAuditRead(r, stage)
  \/ \E r \in DOMAIN runs : RunWork(r)
  \/ \E r \in DOMAIN runs : RunBundles(r)

\* Requests served at once by one server process.
RunsSpec == RunsInit /\ [][RunsNext]_vars

(***************************************************************************)
(* The connection store (lib/store.ts).  The callers are requests served   *)
(* by one server process; a call runs from one await to the next without   *)
(* interruption, and the calls interleave at their awaits: readFile in     *)
(* loadStore, writeFile and rename in saveStore.                           *)
(*   disk         the store file and its temporary file (<<>> when absent) *)
(*                and whether the data directory can be written            *)
(*   heap         the ConnectionStore objects in memory, by reference      *)
(*   memoryStore  the reference held by `memoryStore`, NoObject for null   *)
(*   callers      per caller, the call in progress and where it stands     *)
(*   history      the calls and returns so far, in order                   *)
(* createdAt and updatedAt of a stored connection are left out.            *)
(***************************************************************************)
\* the calls of the store functions made in one behaviour
MaxOps == 3

Callers == {1, 2}

StoreIds == {"a", "b"}

STORE_VERSION == 1

\* the blob a caller stores for an id, and the blob stored earlier
Blob(id) == IF id = "a" THEN "ea" ELSE "eb"

OldBlob == "e0"

StoredConnection(id, encrypted) == [id |-> id, encrypted |-> encrypted]

ConnectionStore(version, connections) ==
  [version |-> version, connections |-> connections]

\* initializeStore
initializeStore == ConnectionStore(STORE_VERSION, <<>>)

\* the store file when the first call arrives: absent, a store of this
\* version, or a store of another version
StoreFiles ==
  {<<>>,
   <<ConnectionStore(STORE_VERSION, "a" :> StoredConnection("a", OldBlob))>>,
   <<ConnectionStore(STORE_VERSION + 1, "a" :> StoredConnection("a", OldBlob))>>}

NoCall == [op |-> "", id |-> "", pc |-> "idle", ref |-> NoObject]

StoreOps == {"upsert", "delete", "get"}

Event(c, type, op, id, result) ==
  [caller |-> c, type |-> type, op |-> op, id |-> id, result |-> result]

CallsMade == Cardinality({i \in DOMAIN history : history[i].type = "call"})

\* a request calls upsertConnection(id, Blob(id)), deleteConnection(id) or
\* getConnection(id)
StoreCall(c) ==
  /\ callers[c].pc = "idle"
  /\ CallsMade < MaxOps
  /\ \E op \in StoreOps, id \in StoreIds :
       /\ callers' = [callers EXCEPT ![c] = [op |-> op, id |-> id, pc |-> "load",
                                             ref |-> NoObject]]
       /\ history' = Append(history, Event(c, "call", op, id, <<>>))
  /\ UNCHANGED <<disk, heap, memoryStore>>
  /\ UNCHANGED <<config, pc, report, tree, calls, stages, failed, contacted,
                 apiVars, patch, dirs, runVars>>

\* loadStore: the object it returns and the heap that holds it.  A file that
\* can be read is parsed into a new object (or replaced by a new empty store
\* when its version is another); otherwise memoryStore itself is returned
\* when it is set, and a new empty store when it is not.
loadStore(d, h, m) ==
  IF d.file # <<>>
    THEN IF Get(d.file).version # STORE_VERSION
           THEN [ref |-> Len(h) + 1, heap |-> Append(h, initializeStore)]
           ELSE [ref |-> Len(h) + 1, heap |-> Append(h, Get(d.file))]
  ELSE IF m # NoObject THEN [ref |-> m, heap |-> h]
  ELSE [ref |-> Len(h) + 1, heap |-> Append(h, initializeStore)]

\* store.connections[id] = connection
Put(connections, id, encrypted) ==
  (id :> StoredConnection(id, encrypted)) @@ connections

\* delete store.connections[id]
Remove(connections, id) ==
  [i \in DOMAIN connections \ {id} |-> connections[i]]

\* store.connections[id] || null
Lookup(connections, id) ==
  IF id \in DOMAIN connections THEN Some(connections[id]) ELSE Undefined

\* what the call of caller c returns once its store is saved
SavedResult(c) ==
  IF callers[c].op = "upsert"
    THEN Some(StoredConnection(callers[c].id, Blob(callers[c].id)))
    ELSE <<TRUE>>

\* the call of caller c returns `result`
Return(c, result) ==
  /\ callers' = [callers EXCEPT ![c] = NoCall]
  /\ history' = Append(history, Event(c, "return", callers[c].op, callers[c].id, result))

\* `await loadStore()` completes and the call goes on to its next await:
\* getConnection returns, deleteConnection returns false for an unknown id,
\* and otherwise the loaded object is modified and saveStore is entered
StoreLoad(c) ==
  /\ callers[c].pc = "load"
  /\ LET loaded == loadStore(disk, heap, memoryStore)
         id == callers[c].id
         connections == loaded.heap[loaded.ref].connections
     IN
     CASE callers[c].op = "get" ->
            /\ Return(c, Lookup(connections, id))
            /\ UNCHANGED heap
       [] callers[c].op = "delete" /\ id \notin DOMAIN connections ->
            /\ Return(c, <<FALSE>>)
            /\ UNCHANGED heap
       [] callers[c].op = "delete" /\ id \in DOMAIN connections ->
            /\ heap' = [loaded.heap EXCEPT ![loaded.ref].connections = Remove(@, id)]
            /\ callers' = [callers EXCEPT ![c].pc = "write", ![c].ref = loaded.ref]
            /\ UNCHANGED history
       [] callers[c].op = "upsert" ->
            /\ heap' = [loaded.heap EXCEPT
                          ![loaded.ref].connections = Put(@, id, Blob(id))]
            /\ callers' = [callers EXCEPT ![c].pc = "write", ![c].ref = loaded.ref]
            /\ UNCHANGED history
  /\ UNCHANGED <<disk, memoryStore>>
  /\ UNCHANGED <<config, pc, report, tree, calls, stages, failed, contacted,
                 apiVars, patch, dirs, runVars>>

\* saveStore up to `await fs.writeFile(tempPath, JSON.stringify(store))`: the
\* temporary file holds the store as it is now; when the directory cannot be
\* written the catch block sets memoryStore and the call returns
StoreWrite(c) ==
  /\ callers[c].pc = "write"
  /\ IF disk.writable
       THEN /\ disk' = [disk EXCEPT !.temp = Some(heap[callers[c].ref])]
            /\ callers' = [callers EXCEPT ![c].pc = "rename"]
            /\ UNCHANGED <<memoryStore, history>>
       ELSE /\ memoryStore' = callers[c].ref
            /\ Return(c, SavedResult(c))
            /\ UNCHANGED disk
  /\ UNCHANGED heap
  /\ UNCHANGED <<config, pc, report, tree, calls, stages, failed, contacted,
                 apiVars, patch, dirs, runVars>>

\* saveStore from `await fs.rename(tempPath, STORE_PATH)` on: the rename
\* fails when another call has renamed the temporary file away; either way
\* memoryStore is set and the call returns
StoreRename(c) ==
  /\ callers[c].pc = "rename"
  /\ disk' = IF disk.temp # <<>> THEN [disk EXCEPT !.file = disk.temp, !.temp = <<>>]
             ELSE disk
  /\ memoryStore' = callers[c].ref
  /\ Return(c, SavedResult(c))
  /\ UNCHANGED heap
  /\ UNCHANGED <<config, pc, report, tree, calls, stages, failed, contacted,
                 apiVars, patch, dirs, runVars>>

StoreInit ==
  /\ config = NoConfig
  /\ pc = "store"
  /\ report = NewReport(NoConfig)
  /\ tree = EmptyTree
  /\ calls = <<>>
  /\ stages = <<>>
  /\ failed = {}
  /\ contacted = {}
  /\ store = {}
  /\ panel = LockedPanel
  /\ request = NoRequest
  /\ response = NoResponse
  /\ patch = NoPatch
  /\ dirs = {}
  /\ runs = NoRuns
  /\ reports = NoReports
  /\ clock = 0
  /\ disk \in [file : StoreFiles, temp : {<<>>}, writable : BOOLEAN]
  /\ heap = NoHeap
  /\ memoryStore = NoObject
  /\ callers = [c \in Callers |-> NoCall]
  /\ history = NoHistory

StoreNext ==
  \/ \E c \in Callers : StoreCall(c)
  \/ \E c \in Callers : StoreLoad(c)
  \/ \E c \in Callers : StoreWrite(c)
  \/ \E c \in Callers : StoreRename(c)

\* Calls of the store functions by the requests of one server process.
StoreSpec == StoreInit /\ [][StoreNext]_vars

(***************************************************************************)
(* Properties.                                                             *)
(***************************************************************************)
LastStage == stages[Len(stages)]

\* The stage just executed was `stage` and a command of it failed.
JustFailed(stage) == stages # <<>> /\ LastStage = stage /\ failed # {}

Returned == pc = "done"

FatalStages == {"prepare", "fetch", "build"}

FatalFailure == \E s \in FatalStages : JustFailed(s)

InSeq(x, seq) == \E i \in DOMAIN seq : seq[i] = x

Count(seq, text) == Cardinality({i \in DOMAIN seq : seq[i].text = text})

\* C1: every run ends by returning a report, no exception leaves
\* runOptimizationPipeline, and when a fatal stage (working directory, fetch,
\* build) fails the report has success = false and a non-empty errors list.
C1_NeverThrows ==
  /\ pc # "thrown"
  /\ pc \in Stages => ENABLED Next
  /\ FatalFailure => Returned /\ ~report.success /\ report.errors # <<>>

C1_Witness ==
  /\ Returned
  /\ JustFailed("prepare")
  /\ report.errors = <<FsError("mkdir")>>
  /\ ~report.success

\* C2: when the fetch fails the run returns success = false with workDir set
\* and a non-empty errors list, and no later stage is executed: the only
\* command ever issued is the fetch command.
C2_FetchFailureAborts ==
  JustFailed("fetch") =>
    /\ Returned
    /\ ~ENABLED Next
    /\ ~report.success
    /\ report.workDir # NoWorkDir
    /\ \E now \in Timestamps : report.workDir = WorkDirPath(config, now)
    /\ report.errors # <<>>
    /\ stages = <<"prepare", "fetch">>
    /\ \A i \in DOMAIN calls : calls[i] \in {"git clone", "scp"}
    /\ Len(calls) <= 1
    /\ ~IsDefined(report.lighthouse.before)
    /\ ~IsDefined(report.prUrl)

C2_Witness ==
  /\ Returned
  /\ JustFailed("fetch")
  /\ config.connectionData.type = "sftp"
  /\ failed = {"scp"}
  /\ report.workDir # NoWorkDir

\* C3: when the build fails nothing after it is executed; the report has
\* success = false, the build failure message in errors, no after and no
\* mobile snapshot, empty diffs, and it keeps the before snapshot and the
\* perf and seo outcomes.
C3_BuildFailureAborts ==
  JustFailed("build") =>
    /\ Returned
    /\ ~ENABLED Next
    /\ ~report.success
    /\ \E outcome \in Failures : InSeq(BuildError(outcome), report.errors)
    /\ ~IsDefined(report.lighthouse.after)
    /\ ~IsDefined(report.lighthouse.mobile)
    /\ ~IsDefined(report.bundles)
    /\ ~IsDefined(report.prUrl)
    /\ report.diffs = NoDiffs
    /\ IsDefined(report.lighthouse.before)
    /\ report.perf # EmptyResult
    /\ report.seo # EmptyResult
    /\ calls[Len(calls)] = "npm run build"
    /\ stages = <<"prepare", "fetch", "before", "branch", "install", "perf", "seo",
                  "quality", "build">>

C3_Witness ==
  /\ Returned
  /\ JustFailed("build")
  /\ Get(report.lighthouse.before).scores = LhA
  /\ Len(report.perf.applied) > 0
  /\ Len(report.seo.applied) > 0

\* C4: when no fatal stage fails, whatever fails in the other stages, all
\* stages are entered in order and the run returns success = true with an
\* empty errors list.
C4_NonFatalFailuresContinue ==
  (Returned /\ ~FatalFailure) =>
    /\ stages = <<"prepare", "fetch", "before", "branch", "install", "perf", "seo",
                  "quality", "build", "bundles", "after", "mobile", "diffs",
                  "validate", "commit", "pr">>
    /\ report.success
    /\ report.errors = <<>>

C4_Witness ==
  /\ Returned
  /\ report.success
  /\ failed = {"gh pr create"}
  /\ InSeq(CommitWarning, report.warnings)
  /\ InSeq(LintWarning, report.warnings)
  /\ Get(report.lighthouse.before).scores = ZeroScores
  /\ Get(report.lighthouse.after).scores = ZeroScores
  /\ Get(report.bundles) = EmptyAnalysis
  /\ tree.pkg = "none"

\* C5: the stages of a run execute one after the other in the fixed order
\* working directory, fetch, before audit, branch, install, perf patches,
\* seo patches, quality checks, build, bundle analysis, after audit desktop,
\* after audit mobile, deltas, validation, commit/push, change request.
C5_Order ==
  <<"prepare", "fetch", "before", "branch", "install", "perf", "seo", "quality",
    "build", "bundles", "after", "mobile", "diffs", "validate", "commit", "pr">>

AfterAudit == [before |-> "branch", after |-> "mobile", mobile |-> "diffs"]

\* C6: when the audit tool fails or times out, runLighthouse returns scores
\* that are all 0 and the run goes on with the next stage; the failure sets
\* neither success = false nor an error, and a run whose three audits all
\* failed still succeeds.
C6_AuditFailureYieldsZeros ==
  /\ \A s \in AuditStages :
       JustFailed(s) =>
         /\ IsDefined(report.lighthouse[s])
         /\ Get(report.lighthouse[s]).scores = ZeroScores
         /\ pc = AfterAudit[s]
         /\ report.errors = <<>>
  /\ \A run \in LhRuns :
       run.tool # "ok" =>
         /\ runLighthouse(config.siteUrl, "desktop", run).scores = ZeroScores
         /\ runLighthouse(config.siteUrl, "mobile", run).scores = ZeroScores
  /\ (Returned /\ Len(stages) = 16) => report.success /\ report.errors = <<>>

C6_Witness ==
  /\ JustFailed("mobile")
  /\ failed = {"lighthouse mobile"}
  /\ pc = "diffs"
  /\ Get(report.lighthouse.before).scores = ZeroScores
  /\ Get(report.lighthouse.after).scores = LhA

\* C7: in a returned report, when the before and the after snapshot are both
\* present diffs holds after - before for each of the four dimensions, and
\* when one of them is missing diffs is empty.
C7_DiffsAreAfterMinusBefore ==
  Returned =>
    IF IsDefined(report.lighthouse.before) /\ IsDefined(report.lighthouse.after)
      THEN /\ report.diffs # NoDiffs
           /\ DOMAIN Get(report.diffs) = Dimensions
           /\ \A d \in Dimensions :
                Get(report.diffs)[d] = Get(report.lighthouse.after).scores[d]
                                       - Get(report.lighthouse.before).scores[d]
           /\ Get(report.diffs) = compareAudits(Get(report.lighthouse.before),
                                                Get(report.lighthouse.after))
      ELSE report.diffs = NoDiffs

C7_Witness ==
  /\ Returned
  /\ report.diffs # NoDiffs
  /\ Get(report.diffs) =
       [performance |-> -50, accessibility |-> -100, bestPractices |-> 0, seo |-> 30]

ThresholdLabels ==
  [performance |-> "Performance", seo |-> "SEO", accessibility |-> "Accessibilite",
   bestPractices |-> "Best Practices"]

\* C8: validation adds, for each dimension, exactly one warning when the
\* after score is strictly below the minimum and none otherwise; it changes
\* neither success nor errors, and commit/push and, if configured, the change
\* request are attempted whatever the scores; with all minimums at 0 it adds
\* no warning.
C8_ThresholdsAreAdvisory ==
  /\ \A d \in Dimensions :
       Count(report.warnings, ThresholdLabels[d]) =
         IF InSeq("validate", stages)
            /\ Get(report.lighthouse.after).scores[d] < config.lighthouseMinScores[d]
           THEN 1 ELSE 0
  /\ \A d \in Dimensions, i \in DOMAIN report.warnings :
       report.warnings[i].text = ThresholdLabels[d] =>
         report.warnings[i].nums = <<Get(report.lighthouse.after).scores[d],
                                     config.lighthouseMinScores[d]>>
  /\ (stages # <<>> /\ LastStage = "validate") =>
       pc = "commit" /\ report.errors = <<>> /\ ~report.success
  /\ (Returned /\ InSeq("validate", stages)) =>
       /\ InSeq("git add", calls)
       /\ config.preferPr => InSeq("gh pr create", calls)
       /\ report.success
       /\ report.errors = <<>>
  /\ config.lighthouseMinScores = MinsZero =>
       \A d \in Dimensions : Count(report.warnings, ThresholdLabels[d]) = 0

C8_Witness ==
  /\ Returned
  /\ config.preferPr
  /\ InSeq("git push", calls)
  /\ Get(report.lighthouse.after).scores = LhA
  /\ config.lighthouseMinScores = MinsMixed
  /\ Count(report.warnings, "SEO") = 1
  /\ Count(report.warnings, "Performance") = 0

DegradedCommands ==
  {"git checkout -b", "npm install", "pnpm install", "yarn install", "npm run lint",
   "prettier", "npm audit", "writeBundleReport", "git add", "git commit", "git push",
   "gh pr create"}

\* C9: every degraded failure (branch creation, dependency install, linter,
\* formatter, vulnerability scan, bundle analysis, commit/push, change
\* request) adds at least one entry to report.warnings.
C9_DegradedFailuresWarn ==
  [][(failed' \cap DegradedCommands # {})
       => Len(report'.warnings) > Len(report.warnings)]_vars

\* C10: with preferPr false no change request is attempted and prUrl is
\* undefined; with preferPr true and a failed creation prUrl is undefined, a
\* warning naming the optimization branch is appended and the run returns
\* success = true; report.branch is always the configured optimizeBranch.
C10_ChangeRequestOptional ==
  /\ report.branch = config.optimizeBranch
  /\ ~config.preferPr => ~InSeq("gh pr create", calls) /\ ~IsDefined(report.prUrl)
  /\ JustFailed("pr") =>
       /\ config.preferPr
       /\ ~IsDefined(report.prUrl)
       /\ report.warnings # <<>>
       /\ report.warnings[Len(report.warnings)] =
            Msg("Creer manuellement la PR depuis la branche ", <<>>,
                <<config.optimizeBranch>>)
       /\ Returned
       /\ report.success
  /\ IsDefined(report.prUrl) =>
       Returned /\ config.preferPr /\ failed = {} /\ Get(report.prUrl) \in PrUrls

C10_Witness ==
  /\ JustFailed("pr")
  /\ Returned
  /\ report.success
  /\ report.branch = "main"
  /\ ~IsDefined(report.prUrl)

\* the host a connection names: the host of its repository URL, or its
\* SSH/SFTP host
ConnectionHost(conn) ==
  IF conn.type = "git" THEN extractHostFromUrl(conn.repoUrl)
  ELSE IF IsDefined(conn.host) THEN Get(conn.host)
  ELSE EmptyHost

\* C11: when the host of the connection is not in config.allowedHosts, no
\* clone or copy command is issued and no host is contacted, the fetch stage
\* ends the run with success = false and a recorded error, and no later stage
\* executes.
C11_DisallowedHostNotFetched ==
  ~isHostAllowed(ConnectionHost(config.connectionData), config.allowedHosts) =>
    /\ calls = <<>>
    /\ contacted = {}
    /\ InSeq("fetch", stages) =>
         /\ Returned
         /\ LastStage = "fetch"
         /\ ~report.success
         /\ report.errors # <<>>

\* the request of the run, once a route has received one
OptimizeStarted ==
  IsDefined(request) /\ Get(request).route = "optimize" /\ stages # <<>>

\* C12: POST /api/optimize runs the pipeline only for a siteUrl whose host is
\* on ALLOWED_HOSTS.
C12_PipelineOnlyForAllowedSite ==
  OptimizeStarted =>
    isHostAllowed(Get(Get(request).body.siteUrl), ALLOWED_HOSTS)

\* the route has answered `status` without running the pipeline
Rejected(status) ==
  /\ pc = "responded"
  /\ IsDefined(response)
  /\ Get(response).status = status
  /\ ~Get(response).ok
  /\ ~IsDefined(Get(response).report)
  /\ stages = <<>>
  /\ calls = <<>>
  /\ contacted = {}
  /\ report.workDir = NoWorkDir

Secrets(conn) ==
  (IF IsDefined(conn.repoUrl)
     THEN {Get(conn.repoUrl).token[i] : i \in DOMAIN Get(conn.repoUrl).token}
     ELSE {})
  \cup (IF IsDefined(conn.password) THEN {Get(conn.password)} ELSE {})

\* the messages of a report
ReportMessages(rep) ==
  rep.errors \o rep.warnings \o rep.perf.applied \o rep.perf.skipped
  \o rep.perf.errors \o rep.seo.applied \o rep.seo.skipped \o rep.seo.errors

\* C14: no secret value of the connection (password, token embedded in the
\* repository URL) appears in a message of the report.
C14_NoSecretInReport ==
  \A i \in DOMAIN ReportMessages(report) :
    \A j \in DOMAIN ReportMessages(report)[i].detail :
      ReportMessages(report)[i].detail[j] \notin Secrets(config.connectionData)

\* C15: no request the admin panel sends to the server carries the master
\* password.
C15_MasterPasswordStaysInBrowser ==
  (IsDefined(request) /\ Get(request).from = "panel"
                       /\ Get(request).route = "optimize") =>
    Get(request).body.masterPassword # Some(panel.masterPassword)

\* C16: every host the test route connects to is allowed by ALLOWED_HOSTS,
\* and a request answered 403 has contacted no host.
C16_TestContactsAllowedHostsOnly ==
  (IsDefined(request) /\ Get(request).route = "test") =>
    /\ \A h \in contacted : isHostAllowed(PlainHost(h), ALLOWED_HOSTS)
    /\ (IsDefined(response) /\ Get(response).status = 403) => contacted = {}

\* C17: when a sub-step is called twice in a row on a tree, no file system
\* call being rejected, and its first call reports an applied item, its
\* second call reports a skipped item and no applied item.
C17_SecondCallSkips ==
  \A i \in DOMAIN patch :
    (/\ i < Len(patch)
     /\ patch[i].fn \in PerfSteps \cup SeoSteps
     /\ patch[i + 1].fn = patch[i].fn
     /\ patch[i].fail = {} /\ patch[i + 1].fail = {}
     /\ patch[i + 1].before = patch[i].after
     /\ patch[i].result.applied # <<>>) =>
      /\ patch[i + 1].result.applied = <<>>
      /\ patch[i + 1].result.skipped # <<>>

\* both sets applied to a tree, without rejected file system calls
PatchBoth(t) == applySeoOptimizations(applyPerfOptimizations(t, {}).tree, {}).tree

\* C18: a set applied again to a tree it was applied to leaves the tree as
\* it is, and so do both sets applied again: patch(patch(tree)) = patch(tree).
C18_SecondApplicationChangesNothing ==
  /\ \A i, j \in DOMAIN patch :
       (/\ i < j
        /\ patch[i].fn \in {"perf", "seo"}
        /\ patch[j].fn = patch[i].fn
        /\ patch[i].fail = {}) =>
         patch[j].after = patch[j].before
  /\ \A i \in DOMAIN patch :
       (/\ i < Len(patch)
        /\ patch[i].fn = "perf" /\ patch[i].fail = {}
        /\ patch[i + 1].fn = "seo" /\ patch[i + 1].fail = {}) =>
         PatchBoth(patch[i + 1].after) = patch[i + 1].after
  /\ tree.nextConfig # "doubled" /\ tree.css # "doubled" /\ tree.layout # "doubled"

C18_Witness ==
  /\ Len(patch) = 3
  /\ patch[1].fn = "perf" /\ patch[2].fn = "seo" /\ patch[3].fn = "seo"
  /\ patch[1].before = CleanNext
  /\ patch[2].fail = {}
  /\ patch[2].after.layout = "metadata"
  /\ patch[2].before.layout = "plain"
  /\ patch[3].after = patch[3].before

\* C19: applyPerfOptimizations runs its seven sub-steps in the order
\* build-config, images, fonts, cache headers, bundle metadata, code-splitting
\* advisory, CSS purge check and applySeoOptimizations its six in the order
\* metadata, robots, sitemap, structured data, canonical URLs, alt-text
\* audit; a sub-step that fails adds an entry to errors and the sub-steps
\* after it still run.
C19_FixedOrderNoShortCircuit ==
  \A i \in DOMAIN patch :
    /\ patch[i].fn = "perf" =>
         /\ patch[i].ran = <<"nextConfig", "images", "fonts", "cacheHeaders", "bundle",
                             "codeSplitting", "purgeCss">>
         /\ ("images" \in patch[i].fail /\ HasTsx(patch[i].before)) =>
              \E k \in DOMAIN patch[i].result.errors :
                patch[i].result.errors[k].text = "Images - "
    /\ patch[i].fn = "seo" =>
         /\ patch[i].ran = <<"metaTags", "robots", "sitemap", "structuredData",
                             "canonical", "altTexts">>
         /\ "robots" \in patch[i].fail =>
              \E k \in DOMAIN patch[i].result.errors :
                patch[i].result.errors[k].text = "robots.txt - "

C19_Witness ==
  /\ Len(patch) = 1
  /\ patch[1].fn = "perf"
  /\ patch[1].fail = {"images"}
  /\ patch[1].before = CleanNext
  /\ Len(patch[1].ran) = 7
  /\ patch[1].result.errors = <<Msg("Images - ", <<>>, <<"EACCES">>)>>
  /\ Len(patch[1].result.applied) = 4

Entries(result) == Len(result.applied) + Len(result.skipped) + Len(result.errors)

\* C20: a sub-step adds exactly one entry to exactly one of applied, skipped
\* and errors, so that applyPerfOptimizations returns 7 entries in all and
\* applySeoOptimizations 6, and no entry is both in applied and in skipped.
C20_OneEntryPerSubStep ==
  \A i \in DOMAIN patch :
    /\ patch[i].fn = "perf" => Entries(patch[i].result) = 7
    /\ patch[i].fn = "seo" => Entries(patch[i].result) = 6
    /\ patch[i].fn \in PerfSteps \cup SeoSteps => Entries(patch[i].result) = 1
    /\ \A a \in DOMAIN patch[i].result.applied, b \in DOMAIN patch[i].result.skipped :
         patch[i].result.applied[a] # patch[i].result.skipped[b]

C20_Witness ==
  /\ Len(patch) = 2
  /\ patch[1].fn = "perf" /\ patch[2].fn = "seo"
  /\ patch[1].before = OddNext
  /\ Len(patch[1].result.applied) = 3
  /\ Len(patch[1].result.skipped) = 2
  /\ Len(patch[1].result.errors) = 2
  /\ Entries(patch[2].result) = 6
  /\ patch[2].result.errors # <<>>

\* the scores runLighthouse returns for a result file holding `categories`
ScoresOf(categories) == [d \in Dimensions |-> CategoryScore(categories, d)]

\* C21: two runs that were given a working directory were given different
\* paths, also when both were started for the same connection id.
C21_DistinctWorkDirs ==
  \A r1, r2 \in DOMAIN runs :
    (r1 # r2 /\ runs[r1].workDir # NoWorkDir /\ runs[r2].workDir # NoWorkDir) =>
      runs[r1].workDir # runs[r2].workDir

\* C22: two runs for different connection ids touch no common file of
\* REPORTS_DIR (no path is written by one and read or written by the other)
\* and every snapshot of a run holds the scores of its own audit, or zeros
\* when its own audit failed.
C22_RunsShareNoFile ==
  \A r1, r2 \in DOMAIN runs :
    (r1 # r2 /\ runs[r1].connectionId # runs[r2].connectionId) =>
      /\ \A path \in DOMAIN reports :
           r1 \in reports[path].writers =>
             r2 \notin reports[path].writers \cup reports[path].readers
      /\ \A stage \in AuditStages :
           IsDefined(runs[r1].lighthouse[stage]) =>
             Get(runs[r1].lighthouse[stage]).scores
               \in {ZeroScores, ScoresOf(runs[r1].measured)}

\* C23: once the run has returned, with success or failure, the working
\* directory it allocated no longer exists.
C23_WorkDirRemoved ==
  (Returned /\ report.workDir # NoWorkDir) => report.workDir \notin dirs

InstallCommands == {"pnpm install", "yarn install", "npm install"}

\* the install commands issued so far
Installs == SelectSeq(calls, LAMBDA c : c \in InstallCommands)

\* C24: after the install stage, a tree without package.json had no
\* install command and no error recorded; otherwise exactly one install
\* command ran, pnpm if pnpm-lock.yaml is present, else yarn if yarn.lock is
\* present, else npm (with or without package-lock.json); and the run goes on
\* with the next stage whether or not the command failed.
C24_InstallByLockfile ==
  (stages # <<>> /\ LastStage = "install") =>
    /\ pc = "perf"
    /\ report.errors = <<>>
    /\ tree.pkg = "none" => Installs = <<>> /\ failed = {}
    /\ tree.pkg # "none" =>
         /\ "pnpm-lock.yaml" \in tree.locks => Installs = <<"pnpm install">>
         /\ ("pnpm-lock.yaml" \notin tree.locks /\ "yarn.lock" \in tree.locks) =>
              Installs = <<"yarn install">>
         /\ tree.locks \cap {"pnpm-lock.yaml", "yarn.lock"} = {} =>
              Installs = <<"npm install">>

C24_Witness ==
  /\ stages # <<>> /\ LastStage = "install"
  /\ {"pnpm-lock.yaml", "yarn.lock"} \subseteq tree.locks
  /\ Installs = <<"pnpm install">>
  /\ failed = {"pnpm install"}
  /\ pc = "perf"

\* C25: the summary analyzeBundles returns depends on the scanned build
\* output only: totalSize is the sum of the sizes of the scanned files and
\* largestFiles the at most 10 largest in descending order, whether or not the
\* summary document could be written.
C25_BundleSummaryOfBuildOutput ==
  (stages # <<>> /\ LastStage = "bundles") =>
    /\ IsDefined(report.bundles)
    /\ Get(report.bundles).totalSize = SumSizes(tree.static)
    /\ Get(report.bundles).largestFiles = Slice(SortBySize(tree.static), TopFiles)
    /\ \A i \in DOMAIN Get(report.bundles).largestFiles :
         i > 1 => Get(report.bundles).largestFiles[i - 1].size
                    >= Get(report.bundles).largestFiles[i].size

\* C26: in every returned report success is true exactly when the errors
\* list is empty.
C26_SuccessIffNoError ==
  Returned => (report.success <=> report.errors = <<>>)

C26_Witness ==
  /\ Returned
  /\ report.success
  /\ report.errors = <<>>
  /\ report.warnings # <<>>
  /\ report.perf.errors # <<>>

\* C27: a run aborted by a fetch failure or by a build failure returns a
\* report whose errors list holds exactly one entry, the message of that
\* failure.
C27_FatalFailureRecordedOnce ==
  (Returned /\ (JustFailed("fetch") \/ JustFailed("build"))) =>
    Len(report.errors) = 1

\* the position of the first call of a command, 0 if it was never called
FirstCall(cmd) ==
  IF InSeq(cmd, calls) THEN CHOOSE i \in DOMAIN calls :
                              calls[i] = cmd /\ \A j \in 1..(i - 1) : calls[j] # cmd
  ELSE 0

\* C28: commit is attempted only after stage-all succeeded, push only after
\* commit succeeded, and the change request is created only in runs where the
\* commit and the push of the branch both succeeded.
C28_PublishOrdering ==
  /\ InSeq("git commit", calls) =>
       0 < FirstCall("git add") /\ FirstCall("git add") < FirstCall("git commit")
  /\ InSeq("git push", calls) =>
       0 < FirstCall("git commit") /\ FirstCall("git commit") < FirstCall("git push")
  /\ (stages # <<>> /\ LastStage = "commit" /\ InSeq("git commit", calls)) =>
       "git add" \notin failed
  /\ (stages # <<>> /\ LastStage = "commit" /\ InSeq("git push", calls)) =>
       "git commit" \notin failed
  /\ InSeq("gh pr create", calls) =>
       /\ InSeq("git push", calls)
       /\ ~InSeq(CommitWarning, report.warnings)

\* the events up to the i-th are whole calls: every call made has returned
Quiet(i) ==
  Cardinality({j \in 1..i : history[j].type = "call"})
    = Cardinality({j \in 1..i : history[j].type = "return"})

\* events i and i + 1 are a call of `op` on `id` and its return
WholeCall(i, op, id) ==
  /\ i + 1 <= Len(history)
  /\ history[i].type = "call" /\ history[i + 1].type = "return"
  /\ history[i].caller = history[i + 1].caller
  /\ history[i].op = op /\ history[i + 1].op = op
  /\ history[i].id = id /\ history[i + 1].id = id

\* C29: with no other call in progress, a getConnection(id) that follows a
\* returned upsertConnection(id, e) returns a record whose blob is e, and one
\* that follows a deleteConnection(id) that returned true returns null,
\* whatever the store file was and whether or not it can be written.
C29_ReadYourWrites ==
  \A i \in DOMAIN history, id \in StoreIds :
    (Quiet(i - 1) /\ WholeCall(i + 2, "get", id)) =>
      /\ WholeCall(i, "upsert", id) =>
           history[i + 3].result = Some(StoredConnection(id, Blob(id)))
      /\ (WholeCall(i, "delete", id) /\ history[i + 1].result = <<TRUE>>) =>
           history[i + 3].result = Undefined

\* what loadStore would return now
CurrentStore ==
  LET loaded == loadStore(disk, heap, memoryStore) IN loaded.heap[loaded.ref]

\* the behaviour so far is two calls, one by each caller, that overlapped and
\* have both returned
TwoConcurrentCalls ==
  /\ Len(history) = 4
  /\ history[1].type = "call" /\ history[2].type = "call"
  /\ history[3].type = "return" /\ history[4].type = "return"

CallOf(op, id) ==
  \E i \in 1..2 : history[i].op = op /\ history[i].id = id

ReturnOf(op, id, result) ==
  \E i \in 3..4 : history[i].op = op /\ history[i].id = id
                     /\ history[i].result = result

\* C30: once two concurrent calls upsertConnection(a, ea) and
\* upsertConnection(b, eb) have both returned the store holds both records,
\* and once a deleteConnection(a) that returned true and a concurrent
\* upsertConnection(b, eb) have both returned the store does not hold a.
C30_NoLostUpdate ==
  TwoConcurrentCalls =>
    /\ (CallOf("upsert", "a") /\ CallOf("upsert", "b")) =>
         /\ Lookup(CurrentStore.connections, "a") = Some(StoredConnection("a", Blob("a")))
         /\ Lookup(CurrentStore.connections, "b") = Some(StoredConnection("b", Blob("b")))
    /\ (ReturnOf("delete", "a", <<TRUE>>) /\ CallOf("upsert", "b")) =>
         "a" \notin DOMAIN CurrentStore.connections

====
